---------------------------- MODULE Spec2Model ----------------------------
(***************************************************************************)
(* A model of the DOM realization engine of src/_realizeCustomElements.ts: *)
(* the reconstruction of the projection-surface forest from the custom     *)
(* elements of a markup subtree, the resolution of every custom element to *)
(* a widget, the validation and assembly of the widget hierarchy, the      *)
(* attachment of one projector per surface, the replacement of the         *)
(* placeholder elements by the rendered nodes, and the destroy handle.     *)
(*                                                                         *)
(* Strings that the code inspects character by character (tag names,       *)
(* attribute values, identifiers) are sequences of one-character strings.  *)
(***************************************************************************)
EXTENDS Integers, Sequences, FiniteSets, Bags, TLC

\* ------------------------------------------------------------------ bounds

\* Number of element nodes of the markup handed to realize (node 1 is the root).
MaxNodes == 4

\* Number of widget instances that exist (registered ones and factory products).
MaxWidgets == 3

\* Number of destroy() calls made on the handle of one realization.
MaxDestroyCalls == 2

\* Number of 'attach' signals one projector emits.
MaxSignals == 2

\* ------------------------------------------------------------------ strings

AsciiUpper ==
    <<"A","B","C","D","E","F","G","H","I","J","K","L","M",
      "N","O","P","Q","R","S","T","U","V","W","X","Y","Z">>

AsciiLower ==
    <<"a","b","c","d","e","f","g","h","i","j","k","l","m",
      "n","o","p","q","r","s","t","u","v","w","x","y","z">>

\* What getAttribute returns for an attribute the element does not carry.
Null == <<"null">>

\* JavaScript truthiness of an attribute value: null and "" are falsy.
Truthy(v) == v # Null /\ v # <<>>

\* a || b on attribute values.
OrElse(a, b) == IF Truthy(a) THEN a ELSE b

\* char -> char.toLowerCase() for the characters /[A-Z]/ matches.
AsciiFold ==
    [c \in {AsciiUpper[i] : i \in 1..Len(AsciiUpper)} |->
        AsciiLower[CHOOSE i \in 1..Len(AsciiUpper) : AsciiUpper[i] = c]]

\* The replacement of one character by tagName.replace(/[A-Z]/g, ...).
ToLowerCase(c) == IF c \in DOMAIN AsciiFold THEN AsciiFold[c] ELSE c

\* A character outside of ASCII that has a lower-case form: the capital I
\* with dot above, U+0130.
CapitalIDot == "U+0130"

\* normalizeTagName lowering every character that has a lower-case form, as
\* tagName.toLowerCase() does.
normalizeTagNameUnicode(tagName) ==
    [i \in 1..Len(tagName) |->
        IF tagName[i] = CapitalIDot THEN "i" ELSE ToLowerCase(tagName[i])]

normalizeTagName(tagName) == [i \in 1..Len(tagName) |-> ToLowerCase(tagName[i])]

ProjectionSurfaceName ==
    <<"p","r","o","j","e","c","t","i","o","n","-","s","u","r","f","a","c","e">>

AttachWidgetName == <<"a","t","t","a","c","h","-","w","i","d","g","e","t">>

FooBarName == <<"f","o","o","-","b","a","r">>

FooIDotName == <<"f","o","o","-",CapitalIDot>>

\* Tag names as the DOM reports them for HTML elements (upper case).
TagDiv == <<"D","I","V">>

TagProjectionSurface ==
    <<"P","R","O","J","E","C","T","I","O","N","-","S","U","R","F","A","C","E">>

TagAttachWidget == <<"A","T","T","A","C","H","-","W","I","D","G","E","T">>

TagFooBar == <<"F","O","O","-","B","A","R">>

TagFooIDot == <<"F","O","O","-",CapitalIDot>>

TagFooI == <<"F","O","O","-","I">>

\* Values of the `is` attribute that differ from a custom name by case or
\* name nothing registered.
IsMixedCaseAttachWidget == <<"A","t","T","a","C","h","-","W","i","D","g","E","t">>

IsUnknown == <<"a","n","o","t","h","e","r","-","e","l","e","m","e","n","t">>

IdFoo == <<"f","o","o">>

IdBar == <<"b","a","r">>

\* ------------------------------------------------------------------ errors

NoError == "none"

ErrNotRooted == "Custom tags must be rooted in a projection-surface"

ErrNestedSurface == "projection-surface cannot contain another projection-surface"

ErrNoId ==
    "Cannot resolve widget for a custom element without 'data-widget-id' or 'id' attributes"

ErrMultiple == "Cannot attach a widget multiple times"

ErrHasParent == "Cannot attach a widget that already has a parent"

\* Rejection of registry.getWidget for an identifier without entry.
ErrNotFound == "Could not find a value for identity"

\* A custom-element factory that throws, and one whose promise rejects.
ErrFactoryThrew == "factory threw"

ErrFactoryRejected == "factory rejected"

\* Rejection of the promise projector.attach() returns.
ErrAttachRejected == "attach rejected"

\* ------------------------------------------------------------------ universe

Nodes == 1..MaxNodes

Widgets == 1..MaxWidgets

\* The node a widget renders to: a node that is not part of the markup.
RenderedNode(w) == MaxNodes + w

RenderedNodes == {RenderedNode(w) : w \in Widgets}

AllNodes == Nodes \cup RenderedNodes

NoWidget == 0

\* The parent of a widget that has none, and of one appended outside realize.
NoParent == [kind |-> "none", id |-> 0]

ExternalParent == [kind |-> "external", id |-> 0]

AttrNames == {"is", "id", "data-widget-id"}

NoAttrs == [a \in AttrNames |-> Null]

Element(tagName, is, id, dwi) ==
    [tagName |-> tagName,
     attrs |-> [a \in AttrNames |->
                   CASE a = "is" -> is
                     [] a = "id" -> id
                     [] OTHER -> dwi]]

\* The elements markup is drawn from: a plain element, a projection surface,
\* attach-widget elements naming "foo" and "bar" and naming nothing, and the
\* registered custom element.
RootTemplates ==
    {Element(TagDiv, Null, Null, Null),
     Element(TagProjectionSurface, Null, Null, Null)}

Templates ==
    RootTemplates \cup
    {Element(TagAttachWidget, Null, IdFoo, Null),
     Element(TagAttachWidget, Null, IdBar, Null),
     Element(TagAttachWidget, Null, Null, Null),
     Element(TagFooBar, Null, Null, Null)}

\* The elements of the markup of nested custom elements: a plain element, a
\* projection surface, attach-widget elements naming "foo" and "bar", and
\* the registered custom element.
NestedTemplates ==
    RootTemplates \cup
    {Element(TagAttachWidget, Null, IdFoo, Null),
     Element(TagAttachWidget, Null, IdBar, Null),
     Element(TagFooBar, Null, Null, Null)}

\* The elements that tell the ways of naming a custom element apart: tag names
\* in upper case, with a character outside of ASCII, `is` values in the exact
\* case, in another case, empty and unknown, on plain and on custom tags.
CaseRootTemplates ==
    {Element(TagProjectionSurface, Null, Null, Null),
     Element(TagAttachWidget, ProjectionSurfaceName, Null, Null),
     Element(TagDiv, Null, Null, Null),
     Element(TagFooI, IsUnknown, Null, Null)}

CaseTemplates ==
    {Element(TagDiv, Null, Null, Null),
     Element(TagFooBar, Null, Null, Null),
     Element(TagFooIDot, Null, Null, Null),
     Element(TagFooI, Null, Null, Null),
     Element(TagDiv, IsMixedCaseAttachWidget, IdFoo, Null),
     Element(TagDiv, AttachWidgetName, IdFoo, Null),
     Element(TagDiv, TagFooBar, Null, Null),
     Element(TagAttachWidget, <<>>, IdFoo, Null),
     Element(TagFooBar, IsUnknown, Null, Null),
     Element(TagFooBar, AttachWidgetName, IdFoo, Null)}

\* The values the attributes of an attach-widget element are drawn from.
AttrValues == {Null, <<>>, IdFoo, IdBar}

AttachTemplates ==
    {Element(TagAttachWidget, Null, id, dwi) : id \in AttrValues, dwi \in AttrValues}

VARIABLES
    elements,       \* node -> element (tag name and attributes)
    childNodes,     \* node -> its child nodes, in order (the live DOM)
    markup,         \* childNodes as it was when realize was called
    widgetRegistry, \* identifier -> registered widget instance, or NoWidget
    customElementFactories, \* the registered custom-element names
    parent,         \* widget -> its parent
    widgetChildren, \* widget -> the widgets appended to it
    pc,             \* "idle", "loading", "attaching", "resolved" or "rejected"
    error,          \* the error realize rejected with
    forest,         \* the reconstructed surface forest
    widgetOf,       \* custom element -> custom.widget
    loadedWidgets,  \* the promises of the widgets being loaded
    appendQueue,
    projectors,     \* the projectors, each named by its root element
    immediatePlaceholderLookup,
    projectorState, \* projector -> its children, attach promise and listener
    managedWidgets,
    handleDestroy,  \* "destroy" until the first destroy(), then "noop"
    calls,          \* the calls realize made on its collaborators
    registrations,  \* the handles returned by the register operations
    entries,        \* <<kind, identifier>> -> the registration holding it
    promises,       \* the bag of the promises returned by get(id)
    thrown,         \* what the last register operation threw
    configurable,   \* the kinds whose instances have a configure hook
    realizeRoot,    \* the root element realize was called on
    suspended       \* the realization state of another realize call in progress

\* The state of the registries of actions, stores and widgets.
registryVars == <<registrations, entries, promises, thrown>>

\* The state of a realization and of the document it works on.
realizeVars ==
    <<elements, childNodes, markup, widgetRegistry, parent, widgetChildren,
      pc, error, forest, widgetOf, loadedWidgets, appendQueue, projectors,
      immediatePlaceholderLookup, projectorState, managedWidgets,
      handleDestroy, calls, realizeRoot, suspended>>

vars ==
    <<elements, childNodes, markup, widgetRegistry, customElementFactories,
      parent, widgetChildren, pc, error, forest, widgetOf, loadedWidgets,
      appendQueue, projectors, immediatePlaceholderLookup, projectorState,
      managedWidgets, handleDestroy, calls, registrations, entries, promises,
      thrown, configurable, realizeRoot, suspended>>

\* ------------------------------------------------------------------ DOM

Range(s) == {s[i] : i \in 1..Len(s)}

RECURSIVE Remove(_, _)
Remove(s, x) ==
    IF s = <<>> THEN <<>>
    ELSE IF Head(s) = x THEN Remove(Tail(s), x)
    ELSE <<Head(s)>> \o Remove(Tail(s), x)

\* other is a descendant of node: what
\* node.compareDocumentPosition(other) & Node.DOCUMENT_POSITION_CONTAINED_BY tests.
RECURSIVE ContainedBy(_, _, _)
ContainedBy(dom, node, other) ==
    \E p \in DOMAIN dom :
        /\ other \in Range(dom[p])
        /\ (p = node \/ ContainedBy(dom, node, p))

\* root.getElementsByTagName('*'): the descendants of root in document order.
RECURSIVE DocumentOrderOf(_, _)
DocumentOrderOf(dom, list) ==
    IF list = <<>> THEN <<>>
    ELSE <<Head(list)>> \o DocumentOrderOf(dom, dom[Head(list)])
                       \o DocumentOrderOf(dom, Tail(list))

getElementsByTagName(dom, root) == DocumentOrderOf(dom, dom[root])

getAttribute(n, name) == elements[n].attrs[name]

\* ReplaceChild that inserts node before reference and leaves reference in
\* place, as Position.Before does.
ReplaceChildBefore(dom, node, reference) ==
    LET removed == [p \in DOMAIN dom |-> Remove(dom[p], node)] IN
    [p \in DOMAIN dom |->
        IF \E i \in 1..Len(removed[p]) : removed[p][i] = reference
        THEN LET i == CHOOSE i \in 1..Len(removed[p]) : removed[p][i] = reference
             IN  SubSeq(removed[p], 1, i - 1) \o <<node>> \o
                 SubSeq(removed[p], i, Len(removed[p]))
        ELSE removed[p]]

\* parent.replaceChild(node, reference), as place(node, Position.Replace, reference)
\* does it: node leaves the place it is in and takes the place of reference.
ReplaceChild(dom, node, reference) ==
    LET detached == [p \in DOMAIN dom |-> Remove(dom[p], node)] IN
    [p \in DOMAIN dom |->
        [i \in 1..Len(detached[p]) |->
            IF detached[p][i] = reference THEN node ELSE detached[p][i]]]

\* ------------------------------------------------------------------ registry

\* CombinedRegistry.hasCustomElementFactory(name)
hasCustomElementFactory(name) == name \in customElementFactories

\* CombinedRegistry.getWidget(id): the promise it returns fulfils with the
\* registered instance and rejects for an identifier without entry.
getWidget(id) ==
    IF id \in DOMAIN widgetRegistry /\ widgetRegistry[id] # NoWidget
    THEN [widget |-> widgetRegistry[id], error |-> NoError]
    ELSE [widget |-> NoWidget, error |-> ErrNotFound]

\* What a custom-element factory that did not throw can produce: a widget,
\* any widget, returned directly or through a promise, or a rejection.
FactoryOutcomes ==
    {[widget |-> w, error |-> NoError] : w \in Widgets} \cup
    {[widget |-> NoWidget, error |-> ErrFactoryRejected]}

\* The outcome of a promise whose producer has not said yet.
Unsettled == [widget |-> NoWidget, error |-> NoError]

\* ------------------------------------------------------------------ tree reconstruction

\* isCustomElement taking every name with a hyphen for a custom element.
isCustomElementHyphenated(is) ==
    \/ is = ProjectionSurfaceName
    \/ is = AttachWidgetName
    \/ "-" \in Range(is)

isCustomElement(is) ==
    \/ is = ProjectionSurfaceName
    \/ is = AttachWidgetName
    \/ hasCustomElementFactory(is)

\* IsCustomNode that falls back to the tag name when the `is` attribute names
\* no custom element.
IsCustomNodeByEither(n) ==
    LET attrIs == getAttribute(n, "is")
        tagName == normalizeTagName(elements[n].tagName)
    IN  (Truthy(attrIs) /\ isCustomElement(attrIs)) \/ isCustomElement(tagName)

\* The test of the scan: the `is` attribute takes precedence over the tag name.
IsCustomNode(n) ==
    LET attrIs == getAttribute(n, "is")
        tagName == normalizeTagName(elements[n].tagName)
    IN  IF Truthy(attrIs) THEN isCustomElement(attrIs) ELSE isCustomElement(tagName)

\* IsOf with the tag name taking precedence over the `is` attribute.
IsOfTagFirst(n) == OrElse(normalizeTagName(elements[n].tagName), getAttribute(n, "is"))

\* The `is` of the CustomElement pushed for element n.
IsOf(n) == OrElse(getAttribute(n, "is"), normalizeTagName(elements[n].tagName))

\* The flat list customElements, in document order.
CustomElementsOf(dom, root) ==
    SelectSeq(<<root>> \o getElementsByTagName(dom, root), IsCustomNode)

\* discardFirstNode that never asks for a node to be discarded.
discardFirstNodeNever(dom, inverseStack, element) == FALSE

\* discardFirstNode with the negation lost.
discardFirstNodeNotNegated(dom, inverseStack, element) ==
    IF Len(inverseStack) = 0 THEN FALSE
    ELSE ContainedBy(dom, inverseStack[1], element)

\* TRUE if the top-most element of the stack does not contain element.
discardFirstNode(dom, inverseStack, element) ==
    IF Len(inverseStack) = 0 THEN FALSE
    ELSE ~ContainedBy(dom, inverseStack[1], element)

\* DiscardNodes with an `if` for the `while`: one node at most is discarded.
DiscardNodesOnce(dom, inverseStack, element) ==
    IF discardFirstNode(dom, inverseStack, element)
    THEN Tail(inverseStack)
    ELSE inverseStack

\* while (discardFirstNode(custom.element)) { inverseStack.shift(); }
RECURSIVE DiscardNodes(_, _, _)
DiscardNodes(dom, inverseStack, element) ==
    IF discardFirstNode(dom, inverseStack, element)
    THEN DiscardNodes(dom, Tail(inverseStack), element)
    ELSE inverseStack

\* The CustomElement objects are named by their element; `is` and `children`
\* are their fields.
EmptyForest ==
    [surfaces |-> <<>>,
     is |-> [n \in Nodes |-> Null],
     children |-> [n \in Nodes |-> <<>>],
     inverseStack |-> <<>>,
     error |-> NoError]

\* ReconstructStep without the guard against a nested projection surface.
ReconstructStepNestingSurfaces(dom, st, custom) ==
    LET stack == DiscardNodes(dom, st.inverseStack, custom) IN
    IF Len(stack) = 0
    THEN IF st.is[custom] # ProjectionSurfaceName
         THEN [st EXCEPT !.inverseStack = stack, !.error = ErrNotRooted]
         ELSE [st EXCEPT !.surfaces = Append(@, custom),
                         !.inverseStack = <<custom>> \o stack]
    ELSE [st EXCEPT !.children[stack[1]] = Append(@, custom),
                    !.inverseStack = <<custom>> \o stack]

\* ReconstructStep that puts a new tree and a new child at the front of its
\* list.
ReconstructStepUnshifting(dom, st, custom) ==
    LET stack == DiscardNodes(dom, st.inverseStack, custom) IN
    IF Len(stack) = 0
    THEN IF st.is[custom] # ProjectionSurfaceName
         THEN [st EXCEPT !.inverseStack = stack, !.error = ErrNotRooted]
         ELSE [st EXCEPT !.surfaces = <<custom>> \o @,
                         !.inverseStack = <<custom>> \o stack]
    ELSE IF st.is[custom] = ProjectionSurfaceName
         THEN [st EXCEPT !.inverseStack = stack, !.error = ErrNestedSurface]
         ELSE [st EXCEPT !.children[stack[1]] = <<custom>> \o @,
                         !.inverseStack = <<custom>> \o stack]

\* One iteration of the loop over customElements.
ReconstructStep(dom, st, custom) ==
    LET stack == DiscardNodes(dom, st.inverseStack, custom) IN
    IF Len(stack) = 0
    THEN IF st.is[custom] # ProjectionSurfaceName
         THEN [st EXCEPT !.inverseStack = stack, !.error = ErrNotRooted]
         ELSE [st EXCEPT !.surfaces = Append(@, custom),
                         !.inverseStack = <<custom>> \o stack]
    ELSE IF st.is[custom] = ProjectionSurfaceName
         THEN [st EXCEPT !.inverseStack = stack, !.error = ErrNestedSurface]
         ELSE [st EXCEPT !.children[stack[1]] = Append(@, custom),
                         !.inverseStack = <<custom>> \o stack]

\* The loop: a throw ends it.
RECURSIVE Reconstruct(_, _, _)
Reconstruct(dom, st, customElements) ==
    IF customElements = <<>> \/ st.error # NoError THEN st
    ELSE Reconstruct(dom, ReconstructStep(dom, st, Head(customElements)),
                     Tail(customElements))

getCustomElementsByProjectionSurface(dom, root) ==
    LET customElements == CustomElementsOf(dom, root) IN
    Reconstruct(dom,
                [EmptyForest EXCEPT
                    !.is = [n \in Nodes |->
                               IF n \in Range(customElements) THEN IsOf(n) ELSE Null]],
                customElements)

\* ------------------------------------------------------------------ realize: the executor

WidgetTarget(w) == [kind |-> "widget", id |-> w]

ProjectorTarget(r) == [kind |-> "projector", id |-> r]

NoCalls ==
    [getWidget |-> <<>>,        \* identifiers looked up, by custom element
     factory |-> <<>>,          \* custom elements whose factory was invoked
     createProjector |-> <<>>,  \* roots projectors were created for
     append |-> <<>>,           \* append calls: target and widgets
     attach |-> <<>>,           \* projectors attach was called on
     destroy |-> <<>>,          \* targets destroy was called on
     handleDestroy |-> 0]       \* destroy() calls on the returned handle

\* resolveAttachWidget without the guard against a missing identifier.
resolveAttachWidgetUnguarded(element) ==
    LET attrWidgetId == getAttribute(element, "data-widget-id")
        attrId == getAttribute(element, "id")
        id == OrElse(attrWidgetId, attrId)
    IN  [threw |-> NoError, id |-> id, outcome |-> getWidget(id)]

\* resolveAttachWidget with `id` taking precedence over `data-widget-id`.
resolveAttachWidgetIdFirst(element) ==
    LET attrWidgetId == getAttribute(element, "data-widget-id")
        attrId == getAttribute(element, "id")
        id == OrElse(attrId, attrWidgetId)
    IN  IF ~Truthy(id)
        THEN [threw |-> ErrNoId, id |-> id,
              outcome |-> [widget |-> NoWidget, error |-> ErrNoId]]
        ELSE [threw |-> NoError, id |-> id, outcome |-> getWidget(id)]

\* resolveAttachWidget: the identifier, the throw, the lookup.
resolveAttachWidget(element) ==
    LET attrWidgetId == getAttribute(element, "data-widget-id")
        attrId == getAttribute(element, "id")
        id == OrElse(attrWidgetId, attrId)
    IN  IF ~Truthy(id)
        THEN [threw |-> ErrNoId, id |-> id,
              outcome |-> [widget |-> NoWidget, error |-> ErrNoId]]
        ELSE [threw |-> NoError, id |-> id, outcome |-> getWidget(id)]

\* StartCustom that records a custom element with children at the end of
\* the append-queue, with push instead of unshift.
StartCustomPushing(f, fo, st, custom) ==
    LET isAttachWidget == f.is[custom] = AttachWidgetName
        r == IF isAttachWidget THEN resolveAttachWidget(custom)
             ELSE [threw |-> IF custom \in fo THEN ErrFactoryThrew ELSE NoError,
                   id |-> Null,
                   outcome |-> Unsettled]
        called == IF isAttachWidget
                  THEN IF r.threw = NoError
                       THEN [st.calls EXCEPT !.getWidget =
                                Append(@, [custom |-> custom, id |-> r.id])]
                       ELSE st.calls
                  ELSE [st.calls EXCEPT !.factory = Append(@, custom)]
        promise == [custom |-> custom,
                    isAttachWidget |-> isAttachWidget,
                    state |-> "pending",
                    outcome |-> r.outcome]
        hasChildren == Len(f.children[custom]) > 0
    IN  IF r.threw # NoError
        THEN [st EXCEPT !.calls = called, !.error = r.threw]
        ELSE [st EXCEPT
                !.calls = called,
                !.loadedWidgets = Append(@, promise),
                !.processing = IF hasChildren THEN Append(@, f.children[custom]) ELSE @,
                !.appendQueue = IF hasChildren THEN Append(@, custom) ELSE @]

\* The body of `for (const custom of processing.shift())` for one custom
\* element; fo is the set of custom elements whose factory throws. The promise
\* of an attach-widget element carries the registry's answer, the promise of a
\* factory product is settled by the factory.
StartCustom(f, fo, st, custom) ==
    LET isAttachWidget == f.is[custom] = AttachWidgetName
        r == IF isAttachWidget THEN resolveAttachWidget(custom)
             ELSE [threw |-> IF custom \in fo THEN ErrFactoryThrew ELSE NoError,
                   id |-> Null,
                   outcome |-> Unsettled]
        called == IF isAttachWidget
                  THEN IF r.threw = NoError
                       THEN [st.calls EXCEPT !.getWidget =
                                Append(@, [custom |-> custom, id |-> r.id])]
                       ELSE st.calls
                  ELSE [st.calls EXCEPT !.factory = Append(@, custom)]
        promise == [custom |-> custom,
                    isAttachWidget |-> isAttachWidget,
                    state |-> "pending",
                    outcome |-> r.outcome]
        hasChildren == Len(f.children[custom]) > 0
    IN  IF r.threw # NoError
        THEN [st EXCEPT !.calls = called, !.error = r.threw]
        ELSE [st EXCEPT
                !.calls = called,
                !.loadedWidgets = Append(@, promise),
                !.processing = IF hasChildren THEN Append(@, f.children[custom]) ELSE @,
                !.appendQueue = IF hasChildren THEN <<custom>> \o @ ELSE @]

RECURSIVE ProcessBatch(_, _, _, _)
ProcessBatch(f, fo, st, batch) ==
    IF batch = <<>> \/ st.error # NoError THEN st
    ELSE ProcessBatch(f, fo, StartCustom(f, fo, st, Head(batch)), Tail(batch))

\* while (processing.length > 0) { for (... of processing.shift()) ... }
RECURSIVE ProcessQueue(_, _, _)
ProcessQueue(f, fo, st) ==
    IF Len(st.processing) = 0 \/ st.error # NoError THEN st
    ELSE ProcessQueue(f, fo,
            ProcessBatch(f, fo, [st EXCEPT !.processing = Tail(@)],
                         Head(st.processing)))

\* StartSurface that creates no projector for a surface without custom
\* children.
StartSurfaceSkippingEmpty(f, fo, st, root) ==
    IF f.children[root] = <<>> THEN st
    ELSE ProcessQueue(f, fo,
            [st EXCEPT
                !.calls.createProjector = Append(@, root),
                !.lookup = [r \in DOMAIN @ \cup {root} |->
                               IF r = root THEN f.children[root] ELSE @[r]],
                !.projectors = Append(@, root),
                !.processing = <<f.children[root]>>])

\* The body of `for (const { children, element: root } of surfaces)`.
StartSurface(f, fo, st, root) ==
    ProcessQueue(f, fo,
        [st EXCEPT
            !.calls.createProjector = Append(@, root),
            !.lookup = [r \in DOMAIN @ \cup {root} |->
                           IF r = root THEN f.children[root] ELSE @[r]],
            !.projectors = Append(@, root),
            !.processing = <<f.children[root]>>])

RECURSIVE ProcessSurfaces(_, _, _, _)
ProcessSurfaces(f, fo, st, surfaces) ==
    IF surfaces = <<>> \/ st.error # NoError THEN st
    ELSE ProcessSurfaces(f, fo, StartSurface(f, fo, st, Head(surfaces)),
                         Tail(surfaces))

ExecutorStart ==
    [loadedWidgets |-> <<>>,
     appendQueue |-> <<>>,
     projectors |-> <<>>,
     lookup |-> [r \in {} |-> <<>>],
     processing |-> <<>>,
     calls |-> NoCalls,
     error |-> NoError]

\* The custom elements of a forest that are resolved through a factory.
RECURSIVE TreeNodes(_, _)
TreeNodes(f, n) ==
    {n} \cup UNION {TreeNodes(f, f.children[n][i]) : i \in 1..Len(f.children[n])}

FactoryNodes(f) ==
    {n \in UNION {TreeNodes(f, r) : r \in Range(f.surfaces)} :
        f.is[n] # ProjectionSurfaceName /\ f.is[n] # AttachWidgetName}

NoProjector ==
    [children |-> <<>>, placeholders |-> <<>>, attach |-> "none",
     listener |-> FALSE, signals |-> 0]

\* realize(root) that resolves the trees reconstructed so far before it
\* reports the structural error.
RealizeResolvingFirst ==
    /\ pc = "idle"
    /\ markup' = childNodes
    /\ \E f \in {getCustomElementsByProjectionSurface(childNodes, realizeRoot)} :
       \E fo \in SUBSET FactoryNodes(f) :
          \E st \in {ProcessSurfaces(f, fo, ExecutorStart, f.surfaces)} :
          /\ forest' = IF f.error # NoError THEN forest ELSE f
          /\ loadedWidgets' = st.loadedWidgets
          /\ appendQueue' = st.appendQueue
          /\ projectors' = st.projectors
          /\ immediatePlaceholderLookup' = st.lookup
          /\ calls' = st.calls
          /\ pc' = IF f.error # NoError \/ st.error # NoError
                   THEN "rejected" ELSE "loading"
          /\ error' = IF f.error # NoError THEN f.error ELSE st.error
    /\ UNCHANGED registryVars
    /\ UNCHANGED configurable
    /\ UNCHANGED <<realizeRoot, suspended>>
    /\ UNCHANGED <<elements, childNodes, widgetRegistry, customElementFactories,
                   parent, widgetChildren, widgetOf, projectorState,
                   managedWidgets, handleDestroy>>

\* realize(root): the executor of the promise. A throw of the tree
\* reconstruction, of resolveAttachWidget or of a factory rejects the promise.
Realize ==
    /\ pc = "idle"
    /\ markup' = childNodes
    /\ \E f \in {getCustomElementsByProjectionSurface(childNodes, realizeRoot)} :
       IF f.error # NoError
       THEN /\ pc' = "rejected"
            /\ error' = f.error
            /\ UNCHANGED <<forest, loadedWidgets, appendQueue, projectors,
                           immediatePlaceholderLookup, calls>>
       ELSE \E fo \in SUBSET FactoryNodes(f) :
               \E st \in {ProcessSurfaces(f, fo, ExecutorStart, f.surfaces)} :
               /\ forest' = f
               /\ loadedWidgets' = st.loadedWidgets
               /\ appendQueue' = st.appendQueue
               /\ projectors' = st.projectors
               /\ immediatePlaceholderLookup' = st.lookup
               /\ calls' = st.calls
               /\ pc' = IF st.error # NoError THEN "rejected" ELSE "loading"
               /\ error' = st.error
    /\ UNCHANGED registryVars
    /\ UNCHANGED configurable
    /\ UNCHANGED <<realizeRoot, suspended>>
    /\ UNCHANGED <<elements, childNodes, widgetRegistry, customElementFactories,
                   parent, widgetChildren, widgetOf, projectorState,
                   managedWidgets, handleDestroy>>

\* ManagedAfter that records every loaded widget as managed.
ManagedAfterAlways(managed, isAttachWidget, widget) == Append(managed, widget)

\* managedWidgets after the `then` callback of a widget promise: attached
\* widgets come from the registry, the others were created whilst realizing.
ManagedAfter(managed, isAttachWidget, widget) ==
    IF ~isAttachWidget THEN Append(managed, widget) ELSE managed

\* SettleWidget in which the rejection of a widget promise does not reach the
\* promise of realize.
SettleWidgetSwallowing(i) ==
    /\ pc # "idle"
    /\ i \in 1..Len(loadedWidgets)
    /\ loadedWidgets[i].state = "pending"
    /\ \E o \in IF loadedWidgets[i].isAttachWidget
                THEN {loadedWidgets[i].outcome}
                ELSE FactoryOutcomes :
       IF o.error = NoError
       THEN /\ loadedWidgets' = [loadedWidgets EXCEPT ![i].state = "fulfilled",
                                                      ![i].outcome = o]
            /\ widgetOf' = [widgetOf EXCEPT ![loadedWidgets[i].custom] = o.widget]
            /\ managedWidgets' = ManagedAfter(managedWidgets,
                                               loadedWidgets[i].isAttachWidget,
                                               o.widget)
            /\ UNCHANGED <<pc, error>>
       ELSE /\ loadedWidgets' = [loadedWidgets EXCEPT ![i].state = "rejected",
                                                      ![i].outcome = o]
            /\ UNCHANGED <<pc, error, widgetOf, managedWidgets>>
    /\ UNCHANGED registryVars
    /\ UNCHANGED configurable
    /\ UNCHANGED <<realizeRoot, suspended>>
    /\ UNCHANGED <<elements, childNodes, markup, widgetRegistry,
                   customElementFactories, parent, widgetChildren, forest,
                   appendQueue, projectors, immediatePlaceholderLookup,
                   projectorState, handleDestroy, calls>>

\* SettleWidget in which the `then` callback of a widget promise takes the
\* placeholder of the widget out of the document as soon as the widget is
\* loaded.
SettleWidgetPlacing(i) ==
    /\ pc # "idle"
    /\ i \in 1..Len(loadedWidgets)
    /\ loadedWidgets[i].state = "pending"
    /\ \E o \in IF loadedWidgets[i].isAttachWidget
                THEN {loadedWidgets[i].outcome}
                ELSE FactoryOutcomes :
       IF o.error = NoError
       THEN /\ loadedWidgets' = [loadedWidgets EXCEPT ![i].state = "fulfilled",
                                                      ![i].outcome = o]
            /\ widgetOf' = [widgetOf EXCEPT ![loadedWidgets[i].custom] = o.widget]
            /\ managedWidgets' = ManagedAfter(managedWidgets,
                                               loadedWidgets[i].isAttachWidget,
                                               o.widget)
            /\ childNodes' = [p \in DOMAIN childNodes |->
                                 Remove(childNodes[p], loadedWidgets[i].custom)]
            /\ UNCHANGED <<pc, error>>
       ELSE /\ loadedWidgets' = [loadedWidgets EXCEPT ![i].state = "rejected",
                                                      ![i].outcome = o]
            /\ pc' = IF pc = "loading" THEN "rejected" ELSE pc
            /\ error' = IF pc = "loading" THEN o.error ELSE error
            /\ UNCHANGED <<widgetOf, managedWidgets, childNodes>>
    /\ UNCHANGED registryVars
    /\ UNCHANGED configurable
    /\ UNCHANGED <<realizeRoot, suspended>>
    /\ UNCHANGED <<elements, markup, widgetRegistry,
                   customElementFactories, parent, widgetChildren, forest,
                   appendQueue, projectors, immediatePlaceholderLookup,
                   projectorState, handleDestroy, calls>>

\* SettleWidget that stores the widget on the first custom element that has
\* none yet, in the order of loadedWidgets, instead of on the custom element
\* of the promise.
SettleWidgetByArrival(i) ==
    /\ pc # "idle"
    /\ i \in 1..Len(loadedWidgets)
    /\ loadedWidgets[i].state = "pending"
    /\ \E o \in IF loadedWidgets[i].isAttachWidget
                THEN {loadedWidgets[i].outcome}
                ELSE FactoryOutcomes :
       IF o.error = NoError
       THEN /\ loadedWidgets' = [loadedWidgets EXCEPT ![i].state = "fulfilled",
                                                      ![i].outcome = o]
            /\ LET first == CHOOSE k \in 1..Len(loadedWidgets) :
                               /\ widgetOf[loadedWidgets[k].custom] = NoWidget
                               /\ \A j \in 1..(k - 1) :
                                     widgetOf[loadedWidgets[j].custom] # NoWidget
               IN  widgetOf' = [widgetOf EXCEPT ![loadedWidgets[first].custom] = o.widget]
            /\ managedWidgets' = ManagedAfter(managedWidgets,
                                               loadedWidgets[i].isAttachWidget,
                                               o.widget)
            /\ UNCHANGED <<pc, error>>
       ELSE /\ loadedWidgets' = [loadedWidgets EXCEPT ![i].state = "rejected",
                                                      ![i].outcome = o]
            /\ pc' = IF pc = "loading" THEN "rejected" ELSE pc
            /\ error' = IF pc = "loading" THEN o.error ELSE error
            /\ UNCHANGED <<widgetOf, managedWidgets>>
    /\ UNCHANGED registryVars
    /\ UNCHANGED configurable
    /\ UNCHANGED <<realizeRoot, suspended>>
    /\ UNCHANGED <<elements, childNodes, markup, widgetRegistry,
                   customElementFactories, parent, widgetChildren, forest,
                   appendQueue, projectors, immediatePlaceholderLookup,
                   projectorState, handleDestroy, calls>>

\* A pending widget promise settles and its `then` callback runs: it stores
\* the widget in its custom element and records a factory product as managed.
\* A rejection rejects Promise.all and with it realize.
SettleWidget(i) ==
    /\ pc # "idle"
    /\ i \in 1..Len(loadedWidgets)
    /\ loadedWidgets[i].state = "pending"
    /\ \E o \in IF loadedWidgets[i].isAttachWidget
                THEN {loadedWidgets[i].outcome}
                ELSE FactoryOutcomes :
       IF o.error = NoError
       THEN /\ loadedWidgets' = [loadedWidgets EXCEPT ![i].state = "fulfilled",
                                                      ![i].outcome = o]
            /\ widgetOf' = [widgetOf EXCEPT ![loadedWidgets[i].custom] = o.widget]
            /\ managedWidgets' = ManagedAfter(managedWidgets,
                                               loadedWidgets[i].isAttachWidget,
                                               o.widget)
            /\ UNCHANGED <<pc, error>>
       ELSE /\ loadedWidgets' = [loadedWidgets EXCEPT ![i].state = "rejected",
                                                      ![i].outcome = o]
            /\ pc' = IF pc = "loading" THEN "rejected" ELSE pc
            /\ error' = IF pc = "loading" THEN o.error ELSE error
            /\ UNCHANGED <<widgetOf, managedWidgets>>
    /\ UNCHANGED registryVars
    /\ UNCHANGED configurable
    /\ UNCHANGED <<realizeRoot, suspended>>
    /\ UNCHANGED <<elements, childNodes, markup, widgetRegistry,
                   customElementFactories, parent, widgetChildren, forest,
                   appendQueue, projectors, immediatePlaceholderLookup,
                   projectorState, handleDestroy, calls>>

\* ------------------------------------------------------------------ realize: validation and assembly

\* ValidateWidgets without the comparison of the set's size.
ValidateWidgetsNoUniques(widgets, par) ==
    IF \E i \in 1..Len(widgets) : par[widgets[i]] # NoParent THEN ErrHasParent
    ELSE NoError

\* ValidateWidgets looking for a parent on the first widget only.
ValidateWidgetsFirstParent(widgets, par) ==
    IF Cardinality(Range(widgets)) # Len(widgets) THEN ErrMultiple
    ELSE IF Len(widgets) > 0 /\ par[widgets[1]] # NoParent THEN ErrHasParent
    ELSE NoError

\* The guard against improper widget usage; widgets is the value of
\* Promise.all(loadedWidgets).
ValidateWidgets(widgets, par) ==
    IF Cardinality(Range(widgets)) # Len(widgets) THEN ErrMultiple
    ELSE IF \E i \in 1..Len(widgets) : par[widgets[i]] # NoParent THEN ErrHasParent
    ELSE NoError

\* target.append(widgets): the call, and what it does to the widgets.
AppendTo(st, target, widgets) ==
    [st EXCEPT
        !.calls.append = Append(@, [target |-> target, widgets |-> widgets]),
        !.parent = [w \in Widgets |->
                       IF w \in Range(widgets) THEN target ELSE @[w]],
        !.widgetChildren = IF target.kind = "widget"
                           THEN [@ EXCEPT ![target.id] = @ \o widgets]
                           ELSE @]

\* for (const custom of appendQueue) { parent.append(widgets) }
RECURSIVE BuildHierarchy(_, _)
BuildHierarchy(st, queue) ==
    IF queue = <<>> THEN st
    ELSE LET custom == Head(queue)
             widgets == [i \in 1..Len(forest.children[custom]) |->
                            widgetOf[forest.children[custom][i]]]
         IN  BuildHierarchy(AppendTo(st, WidgetTarget(widgetOf[custom]), widgets),
                            Tail(queue))

\* The body of projectors.map(...): append the top-level widgets, listen for
\* 'attach', attach the projector.
AttachProjector(st, projector) ==
    LET immediatePlaceholders == st.lookup[projector]
        widgets == [i \in 1..Len(immediatePlaceholders) |->
                       widgetOf[immediatePlaceholders[i]]]
        appended == AppendTo(st, ProjectorTarget(projector), widgets)
    IN  [appended EXCEPT
            !.lookup = [r \in DOMAIN @ \ {projector} |-> @[r]],
            !.calls.attach = Append(@, projector),
            !.projectorState[projector] =
                [children |-> widgets,
                 placeholders |-> immediatePlaceholders,
                 attach |-> "pending",
                 listener |-> TRUE,
                 signals |-> 0]]

RECURSIVE AttachProjectors(_, _)
AttachProjectors(st, ps) ==
    IF ps = <<>> THEN st
    ELSE AttachProjectors(AttachProjector(st, Head(ps)), Tail(ps))

AssemblyStart ==
    [calls |-> calls,
     parent |-> parent,
     widgetChildren |-> widgetChildren,
     lookup |-> immediatePlaceholderLookup,
     projectorState |-> projectorState,
     error |-> NoError]

\* AssemblyOutcome with the hierarchy built before the widgets are validated.
AssemblyOutcomeBuildFirst(widgets) ==
    LET err == ValidateWidgets(widgets, parent)
        built == BuildHierarchy(AssemblyStart, appendQueue)
    IN  IF err # NoError THEN [built EXCEPT !.error = err]
        ELSE AttachProjectors(built, projectors)

\* AssemblyOutcome whose parent check saw the widgets as they were before the
\* appends of the other realize call.
AssemblyOutcomeCheckedEarlier(widgets) ==
    LET appendedByOther ==
            UNION {Range(suspended.calls.append[k].widgets) :
                      k \in 1..Len(suspended.calls.append)}
        err == ValidateWidgets(widgets,
                               [w \in Widgets |->
                                   IF w \in appendedByOther THEN NoParent
                                   ELSE parent[w]])
    IN  IF err # NoError THEN [AssemblyStart EXCEPT !.error = err]
        ELSE AttachProjectors(BuildHierarchy(AssemblyStart, appendQueue), projectors)

\* The continuation that runs once every widget is loaded: validate, build
\* the hierarchy, attach the projectors. A validation error throws before
\* anything is appended.
AssemblyOutcome(widgets) ==
    LET err == ValidateWidgets(widgets, parent) IN
    IF err # NoError THEN [AssemblyStart EXCEPT !.error = err]
    ELSE AttachProjectors(BuildHierarchy(AssemblyStart, appendQueue), projectors)

Assemble ==
    /\ pc = "loading"
    /\ \A i \in 1..Len(loadedWidgets) : loadedWidgets[i].state = "fulfilled"
    /\ \E st \in {AssemblyOutcome([i \in 1..Len(loadedWidgets) |->
                                        loadedWidgets[i].outcome.widget])} :
           /\ calls' = st.calls
           /\ parent' = st.parent
           /\ widgetChildren' = st.widgetChildren
           /\ immediatePlaceholderLookup' = st.lookup
           /\ projectorState' = st.projectorState
           /\ error' = st.error
           /\ pc' = IF st.error # NoError THEN "rejected" ELSE "attaching"
    /\ UNCHANGED registryVars
    /\ UNCHANGED configurable
    /\ UNCHANGED <<realizeRoot, suspended>>
    /\ UNCHANGED <<elements, childNodes, markup, widgetRegistry,
                   customElementFactories, forest, widgetOf, loadedWidgets,
                   appendQueue, projectors, managedWidgets, handleDestroy>>

\* ------------------------------------------------------------------ the projector

\* The widgets below a list of widgets in the hierarchy.
RECURSIVE Hierarchy(_)
Hierarchy(ws) ==
    Range(ws) \cup UNION {Hierarchy(widgetChildren[ws[i]]) : i \in 1..Len(ws)}

\* Render of a projector attached in 'replace' mode: the rendered nodes take
\* the place of the root's children.
RenderReplacing(dom, projector) ==
    LET top == projectorState[projector].children IN
    [n \in DOMAIN dom |->
        IF n = projector
        THEN [i \in 1..Len(top) |-> RenderedNode(top[i])]
        ELSE IF \E w \in Hierarchy(top) : n = RenderedNode(w)
        THEN LET w == CHOOSE w \in Hierarchy(top) : n = RenderedNode(w)
             IN  [i \in 1..Len(widgetChildren[w]) |-> RenderedNode(widgetChildren[w][i])]
        ELSE dom[n]]

\* The projector renders its widgets: the rendered node of each top-level
\* widget becomes a last child of the root, in append order, and holds the
\* rendered nodes of the widget's own children.
Render(dom, projector) ==
    LET top == projectorState[projector].children IN
    [n \in DOMAIN dom |->
        IF n = projector
        THEN dom[n] \o [i \in 1..Len(top) |-> RenderedNode(top[i])]
        ELSE IF \E w \in Hierarchy(top) : n = RenderedNode(w)
        THEN LET w == CHOOSE w \in Hierarchy(top) : n = RenderedNode(w)
             IN  [i \in 1..Len(widgetChildren[w]) |-> RenderedNode(widgetChildren[w][i])]
        ELSE dom[n]]

\* for (const { element: placeholder } of immediatePlaceholders) {
\*     place(root.childNodes[offset], Position.Replace, placeholder); }
\* offset counts from 0, sequences from 1.
RECURSIVE ReplacePlaceholders(_, _, _, _)
ReplacePlaceholders(dom, root, offset, placeholders) ==
    IF placeholders = <<>> THEN dom
    ELSE ReplacePlaceholders(
            ReplaceChild(dom, dom[root][offset + 1], Head(placeholders)),
            root, offset, Tail(placeholders))

\* The listener of the projector's 'attach' event.
OnAttach(dom, projector) ==
    LET immediatePlaceholders == projectorState[projector].placeholders
        offset == Len(dom[projector]) - Len(immediatePlaceholders)
    IN  ReplacePlaceholders(dom, projector, offset, immediatePlaceholders)

\* The listener of 'attach' were it to stay registered once it has run.
ListenerAfterAttachKept == TRUE

\* handle.destroy() in the listener of 'attach': it is no longer registered.
ListenerAfterAttach == FALSE

\* The projector has rendered and signals 'attach'; the listener, which
\* deregisters itself, replaces the placeholders; the attach promise fulfils.
ProjectorAttached(projector) ==
    /\ pc \in {"attaching", "rejected"}
    /\ projector \in Range(projectors)
    /\ projectorState[projector].attach = "pending"
    /\ \E rendered \in {Render(childNodes, projector)} :
       childNodes' = IF projectorState[projector].listener
                     THEN OnAttach(rendered, projector)
                     ELSE rendered
    /\ projectorState' =
          [projectorState EXCEPT
              ![projector].attach = "attached",
              ![projector].listener = IF @ THEN ListenerAfterAttach ELSE @,
              ![projector].signals = @ + 1]
    /\ UNCHANGED registryVars
    /\ UNCHANGED configurable
    /\ UNCHANGED <<realizeRoot, suspended>>
    /\ UNCHANGED <<elements, markup, widgetRegistry, customElementFactories,
                   parent, widgetChildren, pc, error, forest, widgetOf,
                   loadedWidgets, appendQueue, projectors,
                   immediatePlaceholderLookup, managedWidgets, handleDestroy,
                   calls>>

\* An attached projector signals 'attach' once more: the listeners that are
\* registered then are called.
ProjectorSignalsAgain(projector) ==
    /\ projector \in Range(projectors)
    /\ projectorState[projector].attach = "attached"
    /\ projectorState[projector].signals < MaxSignals
    /\ childNodes' = IF projectorState[projector].listener
                     THEN OnAttach(childNodes, projector)
                     ELSE childNodes
    /\ projectorState' =
          [projectorState EXCEPT
              ![projector].listener = IF @ THEN ListenerAfterAttach ELSE @,
              ![projector].signals = @ + 1]
    /\ UNCHANGED registryVars
    /\ UNCHANGED configurable
    /\ UNCHANGED <<realizeRoot, suspended>>
    /\ UNCHANGED <<elements, markup, widgetRegistry, customElementFactories,
                   parent, widgetChildren, pc, error, forest, widgetOf,
                   loadedWidgets, appendQueue, projectors,
                   immediatePlaceholderLookup, managedWidgets, handleDestroy,
                   calls>>

\* ProjectorAttachRejects followed by a rollback: the projectors and the
\* managed widgets are destroyed when realize is rejected.
ProjectorAttachRejectsRollingBack(projector) ==
    /\ pc \in {"attaching", "rejected"}
    /\ projector \in Range(projectors)
    /\ projectorState[projector].attach = "pending"
    /\ projectorState' = [projectorState EXCEPT ![projector].attach = "rejected"]
    /\ pc' = "rejected"
    /\ error' = IF pc = "attaching" THEN ErrAttachRejected ELSE error
    /\ calls' = [calls EXCEPT !.destroy =
                    IF pc = "attaching"
                    THEN [i \in 1..Len(projectors) |-> ProjectorTarget(projectors[i])] \o
                         [i \in 1..Len(managedWidgets) |-> WidgetTarget(managedWidgets[i])]
                    ELSE @]
    /\ UNCHANGED registryVars
    /\ UNCHANGED configurable
    /\ UNCHANGED <<realizeRoot, suspended>>
    /\ UNCHANGED <<elements, childNodes, markup, widgetRegistry,
                   customElementFactories, parent, widgetChildren, forest,
                   widgetOf, loadedWidgets, appendQueue, projectors,
                   immediatePlaceholderLookup, managedWidgets, handleDestroy>>

\* The promise projector.attach() returned for this projector rejects, and
\* with it Promise.all(attachedProjectors) and realize, unless it is
\* rejected already.
ProjectorAttachRejects(projector) ==
    /\ pc \in {"attaching", "rejected"}
    /\ projector \in Range(projectors)
    /\ projectorState[projector].attach = "pending"
    /\ projectorState' = [projectorState EXCEPT ![projector].attach = "rejected"]
    /\ pc' = "rejected"
    /\ error' = IF pc = "attaching" THEN ErrAttachRejected ELSE error
    /\ UNCHANGED registryVars
    /\ UNCHANGED configurable
    /\ UNCHANGED <<realizeRoot, suspended>>
    /\ UNCHANGED <<elements, childNodes, markup, widgetRegistry,
                   customElementFactories, parent, widgetChildren, forest,
                   widgetOf, loadedWidgets, appendQueue, projectors,
                   immediatePlaceholderLookup, managedWidgets, handleDestroy,
                   calls>>

\* The promise of the attached projectors were it to fulfil with the first
\* of them, as Promise.race does.
AttachedProjectorsFulfilledByAny ==
    \E r \in Range(projectors) : projectorState[r].attach = "attached"

\* Promise.all(attachedProjectors) is fulfilled: every attach promise is.
AttachedProjectorsFulfilled ==
    \A r \in Range(projectors) : projectorState[r].attach = "attached"

\* Promise.all(attachedProjectors) fulfils: realize fulfils with the handle.
Fulfil ==
    /\ pc = "attaching"
    /\ AttachedProjectorsFulfilled
    /\ pc' = "resolved"
    /\ UNCHANGED registryVars
    /\ UNCHANGED configurable
    /\ UNCHANGED <<realizeRoot, suspended>>
    /\ UNCHANGED <<elements, childNodes, markup, widgetRegistry,
                   customElementFactories, parent, widgetChildren, error, forest,
                   widgetOf, loadedWidgets, appendQueue, projectors,
                   immediatePlaceholderLookup, projectorState, managedWidgets,
                   handleDestroy, calls>>

\* ------------------------------------------------------------------ the handle

\* The body of the handle's destroy: every projector, then every managed widget.
DestroyAll ==
    [i \in 1..Len(projectors) |-> ProjectorTarget(projectors[i])] \o
    [i \in 1..Len(managedWidgets) |-> WidgetTarget(managedWidgets[i])]

\* The handle's destroy left in place by the first call.
ReplacedDestroyKept == "destroy"

\* this.destroy = noop
ReplacedDestroy == "noop"

\* handle.destroy(): the first call replaces the method by noop.
Destroy ==
    /\ pc = "resolved"
    /\ calls.handleDestroy < MaxDestroyCalls
    /\ handleDestroy' = ReplacedDestroy
    /\ calls' = [calls EXCEPT
                    !.handleDestroy = @ + 1,
                    !.destroy = IF handleDestroy = "destroy"
                                THEN @ \o DestroyAll ELSE @]
    /\ UNCHANGED registryVars
    /\ UNCHANGED configurable
    /\ UNCHANGED <<realizeRoot, suspended>>
    /\ UNCHANGED <<elements, childNodes, markup, widgetRegistry,
                   customElementFactories, parent, widgetChildren, pc, error,
                   forest, widgetOf, loadedWidgets, appendQueue, projectors,
                   immediatePlaceholderLookup, projectorState, managedWidgets>>

\* ------------------------------------------------------------------ specification

\* The realization state of the realize call whose continuations are running.
CallState ==
    [root |-> realizeRoot,
     markup |-> markup,
     pc |-> pc,
     error |-> error,
     forest |-> forest,
     widgetOf |-> widgetOf,
     loadedWidgets |-> loadedWidgets,
     appendQueue |-> appendQueue,
     projectors |-> projectors,
     immediatePlaceholderLookup |-> immediatePlaceholderLookup,
     projectorState |-> projectorState,
     managedWidgets |-> managedWidgets,
     handleDestroy |-> handleDestroy,
     calls |-> calls]

\* The managed-widget list after a switch when the list is shared by all
\* realize calls instead of being a constant of each.
ManagedOfSwitchedShared == managedWidgets

\* The managed-widget list of the call switched to.
ManagedOfSwitched == suspended.managedWidgets

\* Between two continuations the event loop turns to the other realize call:
\* each call finds the constants of its own invocation, the document and the
\* widgets are shared.
Switch ==
    /\ suspended.root # 0
    /\ realizeRoot' = suspended.root
    /\ markup' = suspended.markup
    /\ pc' = suspended.pc
    /\ error' = suspended.error
    /\ forest' = suspended.forest
    /\ widgetOf' = suspended.widgetOf
    /\ loadedWidgets' = suspended.loadedWidgets
    /\ appendQueue' = suspended.appendQueue
    /\ projectors' = suspended.projectors
    /\ immediatePlaceholderLookup' = suspended.immediatePlaceholderLookup
    /\ projectorState' = suspended.projectorState
    /\ managedWidgets' = ManagedOfSwitched
    /\ handleDestroy' = suspended.handleDestroy
    /\ calls' = suspended.calls
    /\ suspended' = CallState
    /\ UNCHANGED registryVars
    /\ UNCHANGED configurable
    /\ UNCHANGED <<elements, childNodes, widgetRegistry, customElementFactories,
                   parent, widgetChildren>>

RECURSIVE AncestorsOrSelf(_, _)
AncestorsOrSelf(par, n) ==
    IF n = 1 THEN {1} ELSE {n} \cup AncestorsOrSelf(par, par[n])

\* par numbers the nodes of a tree in document order.
DocumentOrder(par) ==
    /\ \A n \in DOMAIN par : par[n] < n
    /\ \A n \in DOMAIN par : par[n] \in AncestorsOrSelf(par, n - 1)

RECURSIVE Ascending(_)
Ascending(S) ==
    IF S = {} THEN <<>>
    ELSE LET m == CHOOSE x \in S : \A y \in S : x <= y
         IN  <<m>> \o Ascending(S \ {m})

\* The DOM of a tree given by its parent function.
TreeOf(par) ==
    [n \in AllNodes |-> Ascending({c \in DOMAIN par : par[c] = n})]

\* ------------------------------------------------------------------ custom-element names

AnnotationXmlName ==
    <<"a","n","n","o","t","a","t","i","o","n","-","x","m","l">>

ColorProfileName ==
    <<"c","o","l","o","r","-","p","r","o","f","i","l","e">>

FontFaceName ==
    <<"f","o","n","t","-","f","a","c","e">>

FontFaceSrcName ==
    <<"f","o","n","t","-","f","a","c","e","-","s","r","c">>

FontFaceUriName ==
    <<"f","o","n","t","-","f","a","c","e","-","u","r","i">>

FontFaceFormatName ==
    <<"f","o","n","t","-","f","a","c","e","-","f","o","r","m","a","t">>

FontFaceNameName ==
    <<"f","o","n","t","-","f","a","c","e","-","n","a","m","e">>

MissingGlyphName ==
    <<"m","i","s","s","i","n","g","-","g","l","y","p","h">>

reservedNames ==
    {AnnotationXmlName, ColorProfileName, FontFaceName, FontFaceSrcName,
     FontFaceUriName, FontFaceFormatName, FontFaceNameName, MissingGlyphName,
     AttachWidgetName, ProjectionSurfaceName}

\* /^[a-z]/.test(name)
StartsWithLower(name) == Len(name) > 0 /\ name[1] \in Range(AsciiLower)

\* name.indexOf('-'): the index of the first hyphen counted from 0, or -1.
indexOf(name, char) ==
    IF char \in Range(name)
    THEN (CHOOSE i \in 1..Len(name) :
             /\ name[i] = char
             /\ \A j \in 1..(i - 1) : name[j] # char) - 1
    ELSE -1

\* /[A-Z]/.test(name)
HasUpper(name) == \E i \in 1..Len(name) : name[i] \in Range(AsciiUpper)

\* isValidName without its look-up of the reserved names.
isValidNameNoReserved(name) ==
    IF ~StartsWithLower(name) THEN FALSE
    ELSE IF indexOf(name, "-") = -1 THEN FALSE
    ELSE IF HasUpper(name) THEN FALSE
    ELSE TRUE

isValidName(name) ==
    IF ~StartsWithLower(name) THEN FALSE
    ELSE IF indexOf(name, "-") = -1 THEN FALSE
    ELSE IF HasUpper(name) THEN FALSE
    ELSE IF name \in reservedNames THEN FALSE
    ELSE TRUE

\* A character outside of the Basic Multilingual Plane, U+1F4A9.
PileOfPoo == "U+1F4A9"

\* The names registerCustomElementFactory is called with: the names of the
\* tests, and names that differ from them in one respect.
NameCandidates ==
    reservedNames \cup
    {<<>>, <<PileOfPoo,"-">>, <<"a">>, <<"a","-","A">>, <<"a","-">>,
     <<"-","a">>, <<"F","o","o","-","b","a","r">>,
     <<"f","o","o","b","a","r">>, FooBarName, FooIDotName}

\* ------------------------------------------------------------------ registries

MaxHandles == 2

MaxGets == 3

Kinds == {"action", "store", "widget"}

CustomElementKind == "customElement"

RegistryIds == {IdFoo, IdBar}

EntryKeys == Kinds \X RegistryIds

NoRegistration == 0

\* The messages of what a register operation threw: none, or the message
\* of the error for an identifier that is registered already.
NothingThrown == <<>>

ErrDuplicate == <<"duplicate">>

\* The message of the error registerCustomElementFactory throws.
InvalidNameMessage(name) ==
    <<"'">> \o name \o <<"'", " is not a valid custom element name">>

\* The instance held by registration h: the one it was registered with
\* (call 0) or the one its factory returned from its call-th call.
Instance(h, call) == <<h, call>>

NoInstance == <<>>

\* The registration of a definition for which no handle was returned.
NoHandle == 0

\* The entry a register operation creates, with the handle that removes
\* it: handles are named by the first registration of their call.
NewRegistration(kind, id, producer) ==
    [kind |-> kind, id |-> id, producer |-> producer,
     handle |-> Len(registrations) + 1,
     state |-> IF producer = "instance" /\ kind \notin configurable
               THEN "resolved" ELSE "unresolved",
     invocations |-> 0, rounds |-> 0,
     instance |-> IF producer = "instance"
                  THEN Instance(Len(registrations) + 1, 0) ELSE NoInstance,
     configure |-> IF kind \in configurable THEN "uncalled" ELSE "none",
     configureCalls |-> 0, error |-> NoError,
     destroyed |-> FALSE]

\* hasAction(id), hasStore(id), hasWidget(id)
has(kind, id) == entries[<<kind, id>>] # NoRegistration

\* The number of handles the register operations have returned.
HandlesReturned ==
    Cardinality({h \in 1..Len(registrations) : registrations[h].handle = h})

\* The duplicate check of a register operation that never finds a duplicate.
AlreadyRegisteredNever(kind, id) == FALSE

\* The duplicate check of a register operation that looks for the
\* identifier among the actions, the stores and the widgets.
AlreadyRegisteredAnyKind(kind, id) == \E k \in Kinds : has(k, id)

\* The duplicate check of a register operation: the identifier is looked
\* for among the entries of the same kind only.
AlreadyRegistered(kind, id) == has(kind, id)

\* registerAction(id, instance), registerStore, registerWidget and the three
\* register...Factory(id, factory)
Register(kind, id, producer) ==
    /\ Len(registrations) < MaxHandles
    /\ IF AlreadyRegistered(kind, id)
       THEN /\ thrown' = ErrDuplicate
            /\ UNCHANGED <<registrations, entries>>
       ELSE /\ thrown' = NothingThrown
            /\ registrations' =
                  Append(registrations, NewRegistration(kind, id, producer))
            /\ entries' =
                  [entries EXCEPT ![<<kind, id>>] = Len(registrations) + 1]
    /\ UNCHANGED <<promises, customElementFactories>>
    /\ UNCHANGED realizeVars
    /\ UNCHANGED configurable

\* registerCustomElementFactory(name, factory)
RegisterCustomElementFactory(name) ==
    /\ Len(registrations) < MaxHandles
    /\ IF ~isValidName(name)
       THEN /\ thrown' = InvalidNameMessage(name)
            /\ UNCHANGED <<registrations, customElementFactories>>
       ELSE IF hasCustomElementFactory(name)
       THEN /\ thrown' = ErrDuplicate
            /\ UNCHANGED <<registrations, customElementFactories>>
       ELSE /\ thrown' = NothingThrown
            /\ registrations' =
                  Append(registrations,
                         NewRegistration(CustomElementKind, name, "factory"))
            /\ customElementFactories' = customElementFactories \cup {name}
    /\ UNCHANGED <<entries, promises>>
    /\ UNCHANGED realizeVars
    /\ UNCHANGED configurable

\* The registrations handle h removes at its first destroy().
RemovedBy(h) ==
    {i \in 1..Len(registrations) :
        registrations[i].handle = h /\ ~registrations[i].destroyed}

\* The entries after the destroy() of a handle that removes whatever is
\* registered under the identifiers of the handle, at every call.
EntriesAfterDestroyByIdentifier(h) ==
    [key \in EntryKeys |->
        IF \E i \in 1..Len(registrations) :
              /\ registrations[i].handle = h
              /\ <<registrations[i].kind, registrations[i].id>> = key
        THEN NoRegistration
        ELSE entries[key]]

\* The entries after the destroy() of a handle that removes the entries of
\* its kinds under every identifier.
EntriesAfterDestroyOfKinds(h) ==
    [key \in EntryKeys |->
        IF \E i \in RemovedBy(h) : registrations[i].kind = key[1]
        THEN NoRegistration
        ELSE entries[key]]

\* The entries after the destroy() of handle h: the first call removes the
\* entries the call of the handle registered, every later call is a no-op.
EntriesAfterDestroy(h) ==
    [key \in EntryKeys |->
        IF \E i \in RemovedBy(h) :
              <<registrations[i].kind, registrations[i].id>> = key
        THEN NoRegistration
        ELSE entries[key]]

\* The custom-element names after the destroy() of handle h.
NamesAfterDestroy(h) ==
    customElementFactories \
       {registrations[i].id :
           i \in {j \in RemovedBy(h) :
                     registrations[j].kind = CustomElementKind}}

\* handle.destroy()
DestroyHandle(h) ==
    /\ h \in 1..Len(registrations)
    /\ registrations[h].handle = h
    /\ registrations' =
          [i \in 1..Len(registrations) |->
              IF registrations[i].handle = h
              THEN [registrations[i] EXCEPT !.destroyed = TRUE]
              ELSE registrations[i]]
    /\ entries' = EntriesAfterDestroy(h)
    /\ customElementFactories' = NamesAfterDestroy(h)
    /\ UNCHANGED <<promises, thrown>>
    /\ UNCHANGED realizeVars
    /\ UNCHANGED configurable

\* The kinds of a definition, in the order in which loadDefinition
\* registers them.
KindOrder == <<"action", "store", "widget">>

\* The definitions of a call of loadDefinition, one of identifier id for
\* each of the kinds, in the order in which they are registered.
DefinitionsOf(kinds) == SelectSeq(KindOrder, LAMBDA kind : kind \in kinds)

\* The number of definitions loadDefinition registers: all of them, or
\* those before the first whose identifier is registered already.
RegisteredOf(definitions, id) ==
    LET duplicates == {j \in 1..Len(definitions) :
                         AlreadyRegistered(definitions[j], id)}
    IN  IF duplicates = {} THEN Len(definitions)
        ELSE (CHOOSE j \in duplicates : \A k \in duplicates : j <= k) - 1

\* loadDefinition({ actions, stores, widgets }) with the factory of one
\* identifier for each of the kinds: the definitions are registered one
\* after the other; the first duplicate throws, what was registered before
\* it stays registered and no handle is returned.
LoadDefinition(kinds, id) ==
    /\ Len(registrations) < MaxHandles
    /\ \E definitions \in {DefinitionsOf(kinds)} :
       \E n \in {RegisteredOf(definitions, id)} :
       \E handle \in {IF n = Len(definitions)
                       THEN Len(registrations) + 1 ELSE NoHandle} :
          /\ thrown' = IF n = Len(definitions)
                       THEN NothingThrown ELSE ErrDuplicate
          /\ registrations' =
                registrations \o
                   [j \in 1..n |->
                       [NewRegistration(definitions[j], id, "factory")
                           EXCEPT !.handle = handle]]
          /\ entries' =
                [key \in EntryKeys |->
                    IF key[2] = id /\ \E j \in 1..n : definitions[j] = key[1]
                    THEN Len(registrations) +
                            (CHOOSE j \in 1..n : definitions[j] = key[1])
                    ELSE entries[key]]
    /\ UNCHANGED <<promises, customElementFactories>>
    /\ UNCHANGED realizeVars
    /\ UNCHANGED configurable

\* The registration after a get(id) that calls the factory before it returns.
AfterGetCallingAtOnce(r) ==
    IF r.state = "unresolved"
    THEN [r EXCEPT !.state = "invoked", !.rounds = @ + 1,
                   !.invocations = @ + 1]
    ELSE r

\* The registration after a get(id) that calls the factory again although a
\* resolution is under way or done.
AfterGetCallingAgain(r) ==
    IF r.producer = "factory"
    THEN [r EXCEPT !.state = "requested", !.rounds = @ + 1]
    ELSE r

\* The registration after a get(id): the first get of a factory begins a
\* resolution, which every get shares until it settles; a resolved factory
\* is not called again.
AfterGet(r) ==
    IF r.state = "unresolved"
    THEN [r EXCEPT !.state = "requested", !.rounds = @ + 1]
    ELSE r

\* The promise get(id) returns for an identifier without entry, were it
\* never to settle.
NotFoundPending ==
    [registration |-> NoRegistration, round |-> 0, immediate |-> FALSE,
     state |-> "pending", value |-> NoInstance, error |-> NoError]

\* The promise get(id) returns for an identifier without entry.
NotFound ==
    [registration |-> NoRegistration, round |-> 0, immediate |-> TRUE,
     state |-> "rejected", value |-> NoInstance, error |-> ErrNotFound]

\* The promise get(id) returns for the entry of registration h, r being the
\* registration before the call.
PromiseOf(h, r) ==
    [registration |-> h, round |-> AfterGet(r).rounds,
     immediate |-> r.state \in {"resolved", "failed"},
     state |-> CASE r.state = "resolved" -> "fulfilled"
                 [] r.state = "failed" -> "rejected"
                 [] OTHER -> "pending",
     value |-> IF r.state = "resolved" THEN r.instance ELSE NoInstance,
     error |-> r.error]

\* getAction(id), getStore(id), getWidget(id)
Get(kind, id) ==
    /\ BagCardinality(promises) < MaxGets
    /\ \E h \in {entries[<<kind, id>>]} :
          IF h = NoRegistration
          THEN /\ promises' = promises (+) SetToBag({NotFound})
               /\ UNCHANGED registrations
          ELSE /\ promises' =
                     promises (+) SetToBag({PromiseOf(h, registrations[h])})
               /\ registrations' =
                     [registrations EXCEPT ![h] = AfterGet(registrations[h])]
    /\ UNCHANGED <<entries, thrown, customElementFactories>>
    /\ UNCHANGED realizeVars
    /\ UNCHANGED configurable

\* The factory of registration h is called, in a turn after the get(id) that
\* asked for it.
InvokeFactory(h) ==
    /\ h \in 1..Len(registrations)
    /\ registrations[h].state = "requested"
    /\ registrations[h].producer = "factory"
    /\ registrations' =
          [registrations EXCEPT ![h].state = "invoked", ![h].invocations = @ + 1]
    /\ UNCHANGED <<entries, promises, thrown, customElementFactories>>
    /\ UNCHANGED realizeVars
    /\ UNCHANGED configurable

\* A promise after the resolution of registration h settled: the pending
\* promises of h settle as the resolution did.
SettledPromise(p, h, value, err) ==
    IF p.registration = h /\ p.state = "pending"
    THEN [p EXCEPT !.state = IF err = NoError THEN "fulfilled" ELSE "rejected",
                   !.value = value, !.error = err]
    ELSE p

\* The number of promises of the bag that are among S.
RECURSIVE CopiesAmong(_, _)
CopiesAmong(bag, S) ==
    IF S = {} THEN 0
    ELSE LET p == CHOOSE q \in S : TRUE
         IN  CopiesIn(p, bag) + CopiesAmong(bag, S \ {p})

\* The promises after the resolution of registration h settled.
Settled(h, value, err) ==
    LET after == {SettledPromise(p, h, value, err) : p \in DOMAIN promises}
    IN  [q \in after |->
            CopiesAmong(promises,
                        {p \in DOMAIN promises :
                            SettledPromise(p, h, value, err) = q})]

\* The test of SettleFactory for a configure hook that finds none.
AwaitsConfigureNever(r) == FALSE

\* The instance of registration r has a configure hook, which is called and
\* has to complete before get(id) resolves.
AwaitsConfigure(r) == r.configure # "none"

\* The registration once its factory returned an instance: the instance is
\* cached and the entry resolved, or with a configure hook the hook is
\* called.
AfterFactory(r, value) ==
    IF AwaitsConfigure(r)
    THEN [r EXCEPT !.state = "configuring", !.instance = value,
                   !.configure = "called", !.configureCalls = @ + 1]
    ELSE [r EXCEPT !.state = "resolved", !.instance = value]

\* What the factory of registration h returned settles: with an instance,
\* or with the error the factory threw or rejected with, after which
\* nothing is cached.
SettleFactory(h) ==
    /\ h \in 1..Len(registrations)
    /\ registrations[h].state = "invoked"
    /\ \E err \in {NoError, ErrFactoryRejected} :
          \E value \in {IF err = NoError
                        THEN Instance(h, registrations[h].invocations)
                        ELSE NoInstance} :
             IF err = NoError
             THEN /\ registrations' =
                        [registrations EXCEPT
                            ![h] = AfterFactory(registrations[h], value)]
                  /\ promises' = IF AwaitsConfigure(registrations[h])
                                 THEN promises
                                 ELSE Settled(h, value, err)
             ELSE /\ registrations' =
                        [registrations EXCEPT ![h].state = "unresolved",
                                              ![h].instance = value]
                  /\ promises' = Settled(h, value, err)
    /\ UNCHANGED <<entries, thrown, customElementFactories>>
    /\ UNCHANGED realizeVars
    /\ UNCHANGED configurable

\* action.configure(registry) is called on an action registered by
\* instance, in a turn after the getAction(id) that asked for the action.
CallConfigure(h) ==
    /\ h \in 1..Len(registrations)
    /\ registrations[h].state = "requested"
    /\ registrations[h].producer = "instance"
    /\ registrations' =
          [registrations EXCEPT ![h].state = "configuring",
                                ![h].configure = "called",
                                ![h].configureCalls = @ + 1]
    /\ UNCHANGED <<entries, promises, thrown, customElementFactories>>
    /\ UNCHANGED realizeVars
    /\ UNCHANGED configurable

\* The errors of a configure that fails: the one it throws, or the one the
\* promise it returns rejects with.
ErrConfigureThrew == "configure threw"

ErrConfigureRejected == "configure rejected"

ConfigureErrors == {ErrConfigureThrew, ErrConfigureRejected}

\* The registration after configure settled, were a failed configure to
\* be run again by the next getAction(id).
AfterConfigureRetrying(r, err) ==
    IF err = NoError
    THEN [r EXCEPT !.state = "resolved", !.configure = "completed"]
    ELSE [r EXCEPT !.state = "unresolved", !.configure = "uncalled",
                   !.producer = "instance"]

\* The registration after configure settled: the entry is resolved, or it
\* has failed with the error of configure, which is not run again.
AfterConfigure(r, err) ==
    IF err = NoError
    THEN [r EXCEPT !.state = "resolved", !.configure = "completed"]
    ELSE [r EXCEPT !.state = "failed", !.configure = "failed",
                   !.error = err]

\* What configure returned settles, or what it threw is caught: the
\* promises getAction(id) returned settle with the action or with the
\* error of configure.
SettleConfigure(h) ==
    /\ h \in 1..Len(registrations)
    /\ registrations[h].state = "configuring"
    /\ \E err \in {NoError} \cup ConfigureErrors :
          /\ registrations' =
                [registrations EXCEPT
                    ![h] = AfterConfigure(registrations[h], err)]
          /\ promises' =
                Settled(h, IF err = NoError THEN registrations[h].instance
                                            ELSE NoInstance, err)
    /\ UNCHANGED <<entries, thrown, customElementFactories>>
    /\ UNCHANGED realizeVars
    /\ UNCHANGED configurable

\* An application without registrations.
InitRegistry ==
    /\ registrations = <<>>
    /\ entries = [k \in EntryKeys |-> NoRegistration]
    /\ promises = EmptyBag
    /\ thrown = NothingThrown

\* The realization state of a realize(root) call that has not begun: the
\* constants of the function body and what its closures hold.
IdleCall(root, dom) ==
    [root |-> root,
     markup |-> dom,
     pc |-> "idle",
     error |-> NoError,
     forest |-> EmptyForest,
     widgetOf |-> [n \in Nodes |-> NoWidget],
     loadedWidgets |-> <<>>,
     appendQueue |-> <<>>,
     projectors |-> <<>>,
     immediatePlaceholderLookup |-> [r \in {} |-> <<>>],
     projectorState |-> [n \in Nodes |-> NoProjector],
     managedWidgets |-> <<>>,
     handleDestroy |-> "destroy",
     calls |-> NoCalls]

\* No other realize call.
NoCall == [root |-> 0]

\* No realization begun.
InitCall ==
    /\ widgetChildren = [w \in Widgets |-> <<>>]
    /\ pc = "idle"
    /\ error = NoError
    /\ forest = EmptyForest
    /\ widgetOf = [n \in Nodes |-> NoWidget]
    /\ loadedWidgets = <<>>
    /\ appendQueue = <<>>
    /\ projectors = <<>>
    /\ immediatePlaceholderLookup = [r \in {} |-> <<>>]
    /\ projectorState = [n \in Nodes |-> NoProjector]
    /\ managedWidgets = <<>>
    /\ handleDestroy = "destroy"
    /\ calls = NoCalls

\* realize is called once, on the root of the document.
InitRealization ==
    /\ InitCall
    /\ realizeRoot = 1
    /\ suspended = NoCall

\* The application in which realize(root) is called: the widget "foo"
\* registered, the widget "bar" registered or not, the custom elements
\* "foo-bar" and "foo-" with a capital I with dot above registered, "foo" with
\* a parent already or, as "bar", without, and no realization begun.
InitApp ==
    /\ markup = childNodes
    /\ \E bar \in {NoWidget, 2} :
          /\ widgetRegistry =
                [id \in {IdFoo, IdBar} |-> IF id = IdFoo THEN 1 ELSE bar]
          /\ \E pre \in IF bar = NoWidget THEN {NoWidget} ELSE {NoWidget, 1} :
                parent = [w \in Widgets |->
                             IF w = pre THEN ExternalParent ELSE NoParent]
    /\ customElementFactories = {FooBarName, FooIDotName}
    /\ InitRealization
    /\ InitRegistry
    /\ configurable = {}

\* Every markup of MaxNodes elements, the root included, in every tree shape.
Init ==
    /\ \E par \in [2..MaxNodes -> Nodes] :
          /\ DocumentOrder(par)
          /\ childNodes = TreeOf(par)
    /\ elements \in [Nodes -> Templates]
    /\ elements[1] \in RootTemplates
    /\ InitApp

\* Markup of nested custom elements, with plain elements between them, in
\* every tree shape.
InitNested ==
    /\ \E par \in [2..MaxNodes -> Nodes] :
          /\ DocumentOrder(par)
          /\ childNodes = TreeOf(par)
    /\ elements \in [Nodes -> NestedTemplates]
    /\ elements[1] \in RootTemplates
    /\ InitApp

\* Markup for the resolution of attach-widget elements: a projection surface
\* as root, two attach-widget elements with every combination of `id` and
\* `data-widget-id` values, plain elements otherwise, in every tree shape.
InitAttach ==
    /\ \E par \in [2..MaxNodes -> Nodes] :
          /\ DocumentOrder(par)
          /\ childNodes = TreeOf(par)
    /\ \E a \in AttachTemplates, b \in AttachTemplates :
          elements = [n \in Nodes |->
                         CASE n = 1 -> Element(TagProjectionSurface, Null, Null, Null)
                           [] n = 2 -> a
                           [] n = 3 -> b
                           [] OTHER -> Element(TagDiv, Null, Null, Null)]
    /\ InitApp

\* Markup for the classification of elements: as root a surface, named by its
\* tag or by `is`, or an element that is not custom; two elements with every
\* way of naming, plain elements otherwise, in every tree shape.
InitCase ==
    /\ \E par \in [2..MaxNodes -> Nodes] :
          /\ DocumentOrder(par)
          /\ childNodes = TreeOf(par)
    /\ \E root \in CaseRootTemplates, a \in CaseTemplates, b \in CaseTemplates :
          elements = [n \in Nodes |->
                         CASE n = 1 -> root
                           [] n = 2 -> a
                           [] n = 3 -> b
                           [] OTHER -> Element(TagDiv, Null, Null, Null)]
    /\ InitApp

\* The elements with an `is` attribute that names no custom element, on the
\* tags of the custom elements, next to an attach-widget and a plain element.
ForeignIsTemplates ==
    {Element(TagAttachWidget, IsUnknown, IdFoo, Null),
     Element(TagProjectionSurface, IsUnknown, Null, Null),
     Element(TagFooBar, IsUnknown, Null, Null),
     Element(TagAttachWidget, Null, IdFoo, Null),
     Element(TagDiv, Null, Null, Null)}

\* Markup with such elements: a surface or a plain element as root, two
\* elements of the above, an attach-widget or a plain element as the last
\* one, plain elements otherwise, in every tree shape.
InitForeignIs ==
    /\ \E par \in [2..MaxNodes -> Nodes] :
          /\ DocumentOrder(par)
          /\ childNodes = TreeOf(par)
    /\ \E root \in RootTemplates, a \in ForeignIsTemplates, b \in ForeignIsTemplates,
          c \in {Element(TagAttachWidget, Null, IdFoo, Null),
                 Element(TagDiv, Null, Null, Null)} :
          elements = [n \in Nodes |->
                         CASE n = 1 -> root
                           [] n = 2 -> a
                           [] n = 3 -> b
                           [] n = MaxNodes -> c
                           [] OTHER -> Element(TagDiv, Null, Null, Null)]
    /\ InitApp

\* The ancestors of node n up to the root first, n included.
RECURSIVE ChainTo(_, _, _)
ChainTo(par, first, n) ==
    IF n = first THEN {first}
    ELSE IF n < first THEN {}
    ELSE {n} \cup ChainTo(par, first, par[n])

\* par numbers the nodes of two detached trees in document order: the first
\* with root 1 and k nodes, the second with root k + 1.
TwoTrees(par, k) ==
    /\ \A n \in DOMAIN par : par[n] < n
    /\ par[k + 1] = 0
    /\ \A n \in 2..k : par[n] \in ChainTo(par, 1, n - 1)
    /\ \A n \in (k + 2)..MaxNodes : par[n] \in ChainTo(par, k + 1, n - 1)

\* The elements below the two roots: attach-widget elements naming "foo" and
\* "bar", the registered custom element and a plain element.
TwoCallTemplates ==
    {Element(TagAttachWidget, Null, IdFoo, Null),
     Element(TagAttachWidget, Null, IdBar, Null),
     Element(TagFooBar, Null, Null, Null),
     Element(TagDiv, Null, Null, Null)}

\* Two realize calls, neither begun, on two detached projection surfaces with
\* custom elements in them, in every tree shape; the widgets "foo" and "bar"
\* are registered and have no parent.
InitTwoCalls ==
    /\ \E k \in 1..(MaxNodes - 1) :
          /\ \E par \in [2..MaxNodes -> 0..(MaxNodes - 1)] :
                /\ TwoTrees(par, k)
                /\ childNodes = TreeOf(par)
                /\ suspended = IdleCall(k + 1, TreeOf(par))
          /\ elements \in [Nodes -> TwoCallTemplates \cup
                                      {Element(TagProjectionSurface, Null, Null, Null)}]
          /\ \A n \in Nodes :
                n \in {1, k + 1} <=>
                   elements[n] = Element(TagProjectionSurface, Null, Null, Null)
    /\ markup = childNodes
    /\ widgetRegistry = [id \in {IdFoo, IdBar} |-> IF id = IdFoo THEN 1 ELSE 2]
    /\ parent = [w \in Widgets |-> NoParent]
    /\ customElementFactories = {FooBarName, FooIDotName}
    /\ InitCall
    /\ realizeRoot = 1
    /\ InitRegistry
    /\ configurable = {}

Next ==
    \/ Realize
    \/ \E i \in 1..MaxNodes : SettleWidget(i)
    \/ Assemble
    \/ \E r \in Nodes : ProjectorAttached(r)
    \/ Fulfil
    \/ Destroy

Spec == Init /\ [][Next]_vars

SpecAttach == InitAttach /\ [][Next]_vars

SpecNested == InitNested /\ [][Next]_vars

\* The realization of attach-widget elements with projectors that signal
\* 'attach' again after they are attached.
NextSignals ==
    \/ Next
    \/ \E r \in Nodes : ProjectorSignalsAgain(r)

SpecSignals == InitAttach /\ [][NextSignals]_vars

\* The realization of nested custom elements with projectors whose attach
\* may fail.
NextAttachFails ==
    \/ Next
    \/ \E r \in Nodes : ProjectorAttachRejects(r)

SpecAttachFails == InitNested /\ [][NextAttachFails]_vars

SpecForeignIs == InitForeignIs /\ [][Next]_vars

\* Two realize calls whose continuations interleave.
NextTwoCalls ==
    \/ Next
    \/ Switch

SpecTwoCalls == InitTwoCalls /\ [][NextTwoCalls]_vars

SpecCase == InitCase /\ [][Next]_vars

\* The continuations of fulfilled promises are run: once every widget promise
\* is fulfilled the continuation of Promise.all runs, and once every projector
\* is attached the last one does.
FairSpecCase == SpecCase /\ WF_vars(Assemble) /\ WF_vars(Fulfil)

\* A new application, createApp(), with a document of plain elements that
\* realize is not called on.
NewApp ==
    /\ elements = [n \in Nodes |-> Element(TagDiv, Null, Null, Null)]
    /\ childNodes = TreeOf([n \in 2..MaxNodes |-> 1])
    /\ markup = childNodes
    /\ widgetRegistry = [id \in {IdFoo, IdBar} |-> NoWidget]
    /\ parent = [w \in Widgets |-> NoParent]
    /\ customElementFactories = {}
    /\ InitRealization
    /\ InitRegistry

\* A new application whose actions, stores and widgets have no configure
\* hook.
InitNewApp == NewApp /\ configurable = {}

\* A new application whose actions have a configure hook, as those of
\* createAction() have.
InitConfigure == NewApp /\ configurable = {"action"}

\* The operations of the application on its registries, and the turns in
\* which factories are called and what they returned settles.
NextRegistry ==
    \/ \E kind \in Kinds : Register(kind, IdFoo, "instance")
    \/ \E kind \in Kinds : Register(kind, IdFoo, "factory")
    \/ \E name \in {FooBarName, <<"a">>} : RegisterCustomElementFactory(name)
    \/ \E h \in 1..MaxHandles : DestroyHandle(h)
    \/ \E kind \in Kinds : Get(kind, IdFoo)
    \/ \E h \in 1..MaxHandles : InvokeFactory(h)
    \/ \E h \in 1..MaxHandles : SettleFactory(h)

SpecRegistry == InitNewApp /\ [][NextRegistry]_vars

\* The registration of custom elements under every candidate name.
NextNames ==
    \/ \E name \in NameCandidates : RegisterCustomElementFactory(name)
    \/ \E h \in 1..MaxHandles : DestroyHandle(h)

SpecNames == InitNewApp /\ [][NextNames]_vars

\* The registration of actions, stores and widgets one by one and through
\* loadDefinition, under two identifiers.
NextDefinition ==
    \/ \E kind \in Kinds, id \in RegistryIds :
          Register(kind, id, "instance")
    \/ \E kind \in Kinds, id \in RegistryIds :
          Register(kind, id, "factory")
    \/ \E kinds \in SUBSET Kinds \ {{}}, id \in RegistryIds :
          LoadDefinition(kinds, id)
    \/ \E h \in 1..Len(registrations) : DestroyHandle(h)

SpecDefinition == InitNewApp /\ [][NextDefinition]_vars

\* The registration of an action with a configure hook, by instance, by
\* factory and through loadDefinition, and its resolution.
NextConfigure ==
    \/ Register("action", IdFoo, "instance")
    \/ Register("action", IdFoo, "factory")
    \/ LoadDefinition({"action"}, IdFoo)
    \/ \E h \in 1..MaxHandles : DestroyHandle(h)
    \/ Get("action", IdFoo)
    \/ \E h \in 1..MaxHandles : InvokeFactory(h)
    \/ \E h \in 1..MaxHandles : SettleFactory(h)
    \/ \E h \in 1..MaxHandles : CallConfigure(h)
    \/ \E h \in 1..MaxHandles : SettleConfigure(h)

SpecConfigure == InitConfigure /\ [][NextConfigure]_vars

\* ------------------------------------------------------------------ properties

Count(x, s) == Cardinality({i \in 1..Len(s) : s[i] = x})

\* The elements of the markup the scan classifies as custom, and among them
\* those that are resolved to a widget (all but the projection surfaces).
CustomNodes == {n \in Nodes : IsCustomNode(n)}

ResolvableNodes == {n \in CustomNodes : IsOf(n) # ProjectionSurfaceName}

\* The custom elements that are ancestors of n in the markup.
CustomAncestors(n) == {a \in CustomNodes : ContainedBy(markup, a, n)}

\* The two structural violations of a markup.
Unrooted(n) == n \in ResolvableNodes /\ CustomAncestors(n) = {}

NestedSurface(n) ==
    /\ n \in CustomNodes
    /\ IsOf(n) = ProjectionSurfaceName
    /\ CustomAncestors(n) # {}

\* The position of element n in document order.
Position(n) ==
    CHOOSE i \in 1..MaxNodes : (<<1>> \o getElementsByTagName(markup, 1))[i] = n

Resolved(n) == widgetOf[n] # NoWidget

EveryCustomResolved == \A n \in ResolvableNodes : Resolved(n)

Duplicate(a, b) == a # b /\ Resolved(a) /\ widgetOf[a] = widgetOf[b]

\* The continuation of Promise.all has run or will never run.
Validated == pc \notin {"idle", "loading"}

RejectedWith(e) == pc = "rejected" /\ error = e

HasParent(n) == Resolved(n) /\ parent[widgetOf[n]] # NoParent

\* The step in which the continuation of Promise.all runs.
ValidationStep == pc = "loading" /\ pc' # "loading" /\ EveryCustomResolved

\* C2 as stated: whenever the validation runs and a resolved widget has a
\* parent, realize rejects with 'Cannot attach a widget that already has a
\* parent'.
C2_AsStated ==
    [][(ValidationStep /\ \E n \in Nodes : HasParent(n))
          => (pc' = "rejected" /\ error' = ErrHasParent)]_vars

\* C2, amended: when the validation runs, no two custom elements resolved to
\* the same widget and a resolved widget has a parent, realize rejects with
\* 'Cannot attach a widget that already has a parent'.
C2_ParentedWidgetRejected ==
    [][(/\ ValidationStep
        /\ \E n \in Nodes : HasParent(n)
        /\ ~\E a, b \in Nodes : Duplicate(a, b))
          => (pc' = "rejected" /\ error' = ErrHasParent)]_vars

\* The widget with a parent is not the first one loaded, and it is the widget
\* of a custom element that has custom children.
C2_Witness ==
    /\ RejectedWith(ErrHasParent)
    /\ Len(loadedWidgets) >= 2
    /\ ~HasParent(loadedWidgets[1].custom)
    /\ \E n \in Nodes : HasParent(n) /\ n \in Range(appendQueue)

\* C3: when realize rejects with either validation error, append was called
\* on no widget and on no projector, no projector was attached, and no widget
\* got a parent or a child.
C3_ValidationBeforeMutation ==
    (RejectedWith(ErrMultiple) \/ RejectedWith(ErrHasParent)) =>
        /\ calls.append = <<>>
        /\ calls.attach = <<>>
        /\ \A w \in Widgets : parent[w] \in {NoParent, ExternalParent}
        /\ \A w \in Widgets : widgetChildren[w] = <<>>

\* A validation error in a realization that had a hierarchy to build and a
\* projector to attach.
C3_Witness ==
    /\ RejectedWith(ErrHasParent)
    /\ appendQueue # <<>>
    /\ projectors # <<>>
    /\ \E n \in Nodes : HasParent(n) /\ n \notin Range(appendQueue)

\* The step in which realize(root) scans the markup; a promise that is
\* rejected stays so.
RealizeStep == pc = "idle" /\ pc' # "idle"

\* C4 as stated: when some custom element that is not a projection surface has
\* no custom ancestor, realize rejects with 'Custom tags must be rooted in a
\* projection-surface'.
C4_AsStated ==
    [][(RealizeStep /\ \E n \in Nodes : Unrooted(n))
          => (pc' = "rejected" /\ error' = ErrNotRooted)]_vars

\* C4, amended: when some custom element that is not a projection surface has
\* no custom ancestor, and no projection surface with a custom ancestor
\* precedes it in document order, realize rejects with 'Custom tags must be
\* rooted in a projection-surface'.
C4_UnrootedRejected ==
    [][(RealizeStep /\
        \E n \in Nodes :
           /\ Unrooted(n)
           /\ \A m \in Nodes : NestedSurface(m) => Position(n) < Position(m))
          => (pc' = "rejected" /\ error' = ErrNotRooted)]_vars

\* The unrooted element follows a projection surface that does not contain it.
C4_Witness ==
    /\ RejectedWith(ErrNotRooted)
    /\ \E n, r \in Nodes :
          /\ Unrooted(n)
          /\ r \in CustomNodes
          /\ IsOf(r) = ProjectionSurfaceName
          /\ Position(r) < Position(n)

\* C5 as stated: when a projection surface has a custom ancestor, realize
\* rejects with 'projection-surface cannot contain another projection-surface'.
C5_AsStated ==
    [][(RealizeStep /\ \E n \in Nodes : NestedSurface(n))
          => (pc' = "rejected" /\ error' = ErrNestedSurface)]_vars

\* C5, amended: when a projection surface has a custom ancestor, and no custom
\* element without custom ancestor that is not a projection surface precedes
\* it in document order, realize rejects with 'projection-surface cannot
\* contain another projection-surface'.
C5_NestedSurfaceRejected ==
    [][(RealizeStep /\
        \E n \in Nodes :
           /\ NestedSurface(n)
           /\ \A m \in Nodes : Unrooted(m) => Position(n) < Position(m))
          => (pc' = "rejected" /\ error' = ErrNestedSurface)]_vars

\* The nearest custom ancestor of the nested surface is a custom element
\* inside a surface, with a plain element in between.
C5_Witness ==
    /\ RejectedWith(ErrNestedSurface)
    /\ \E n, c, d \in Nodes :
          /\ NestedSurface(n)
          /\ c \in ResolvableNodes
          /\ d \notin CustomNodes
          /\ ContainedBy(markup, c, d)
          /\ ContainedBy(markup, d, n)

\* The custom elements a factory produced the widget of, and those resolved
\* through the registry.
FactoryElements ==
    {n \in Nodes : forest.is[n] \notin {Null, ProjectionSurfaceName, AttachWidgetName}}

AttachElements == {n \in Nodes : forest.is[n] = AttachWidgetName}

\* C6: after the first destroy() of the handle of a successful realize, destroy
\* has been called exactly once on every projector realize created, exactly
\* once on every widget a custom-element factory produced, and never on a
\* widget obtained through attach-widget.
C6_DestroyManagedOnly ==
    calls.handleDestroy = 1 =>
        /\ \A i \in 1..Len(calls.createProjector) :
              Count(ProjectorTarget(calls.createProjector[i]), calls.destroy) = 1
        /\ \A n \in FactoryElements :
              Count(WidgetTarget(widgetOf[n]), calls.destroy) = 1
        /\ \A n \in AttachElements :
              Count(WidgetTarget(widgetOf[n]), calls.destroy) = 0

\* The handle of a realization with a factory product and an attached widget
\* was destroyed once.
C6_Witness ==
    /\ calls.handleDestroy = 1
    /\ FactoryElements # {}
    /\ AttachElements # {}
    /\ \E n \in FactoryElements : WidgetTarget(widgetOf[n]) \in Range(calls.destroy)

\* C7: every destroy() of the handle after the first is a no-op: whatever the
\* number of calls, the destroy calls made are those of the first one, and no
\* projector and no managed widget is destroyed more than once.
C7_DestroyIdempotent ==
    calls.handleDestroy >= 1 =>
        /\ calls.destroy = DestroyAll
        /\ \A t \in Range(calls.destroy) : Count(t, calls.destroy) = 1

\* The handle of a realization with a projector and a managed widget was
\* destroyed a second time.
C7_Witness ==
    /\ calls.handleDestroy >= 2
    /\ managedWidgets # <<>>
    /\ \E r \in Range(projectors) : ProjectorTarget(r) \in Range(calls.destroy)

\* The elements of the markup that are neither replaced nor inside a replaced
\* element: the projection surfaces and the plain elements outside of every
\* custom element that is not a surface.
KeptNodes ==
    LET replaced == ResolvableNodes IN
    {n \in Nodes : n \notin replaced /\ \A c \in replaced : ~ContainedBy(markup, c, n)}

\* The child nodes cs with the i-th immediate placeholder of surface r
\* exchanged for the rendered node of the i-th top-level widget of its
\* projector.
Substituted(r, cs) ==
    LET placeholders == projectorState[r].placeholders
        top == projectorState[r].children
    IN  [j \in 1..Len(cs) |->
            IF \E i \in 1..Len(placeholders) : placeholders[i] = cs[j]
            THEN RenderedNode(top[CHOOSE i \in 1..Len(placeholders) :
                                     placeholders[i] = cs[j]])
            ELSE cs[j]]

Attached(r) == r \in Range(projectors) /\ projectorState[r].attach = "attached"

\* C8: once a projector has signalled its first attach, the i-th immediate
\* placeholder of its surface is replaced in place by the rendered node of the
\* i-th top-level widget, directly below the surface root or nested in plain
\* elements; no placeholder is left in the DOM and no rendered node is left at
\* the tail of the surface root.
C8_PlaceholdersReplacedInPlace ==
    LET kept == KeptNodes IN
    \A r \in Nodes : Attached(r) =>
        /\ \A q \in {r} \cup {q \in kept : ContainedBy(markup, r, q)} :
              childNodes[q] = Substituted(r, markup[q])
        /\ \A i \in 1..Len(projectorState[r].placeholders) :
              \A p \in AllNodes :
                 projectorState[r].placeholders[i] \notin Range(childNodes[p])

\* A surface with two immediate placeholders, one directly below the root and
\* one nested in a plain element, was attached.
C8_Witness ==
    \E r \in Nodes :
        /\ Attached(r)
        /\ Len(projectorState[r].placeholders) = 2
        /\ \E a, b \in Range(projectorState[r].placeholders) :
              /\ a \in Range(markup[r])
              /\ b \notin Range(markup[r])
              /\ RenderedNode(widgetOf[a]) \in Range(childNodes[r])

\* C9: after a successful realize every projection surface and every plain
\* element outside of the replaced placeholders is still in the DOM, below the
\* parent it had, in its original order relative to the siblings that were not
\* replaced.
C9_KeptElementsStay ==
    pc = "resolved" =>
        LET kept == KeptNodes
            Kept(n) == n \in kept
        IN  \A p \in kept :
               SelectSeq(childNodes[p], Kept) = SelectSeq(markup[p], Kept)

\* A successful realize of a markup in which a placeholder stands between two
\* plain siblings.
C9_Witness ==
    /\ pc = "resolved"
    /\ \E p, a, c, b \in Nodes :
          /\ a < c /\ c < b
          /\ {a, c, b} \subseteq Range(markup[p])
          /\ {a, b} \subseteq KeptNodes /\ c \in ResolvableNodes
          /\ a \in Range(childNodes[p]) /\ b \in Range(childNodes[p])

\* The identifier an attach-widget element names: `data-widget-id` when
\* present and not empty, `id` otherwise.
NamedWidgetId(n) ==
    IF getAttribute(n, "data-widget-id") \notin {Null, <<>>}
    THEN getAttribute(n, "data-widget-id")
    ELSE getAttribute(n, "id")

\* C10: an attach-widget element is resolved with getWidget(id) where id is
\* the `data-widget-id` attribute when that is present and not empty, and the
\* `id` attribute otherwise; with both present `data-widget-id` wins.
C10_WidgetIdPrecedence ==
    /\ \A i \in 1..Len(calls.getWidget) :
          calls.getWidget[i].id = NamedWidgetId(calls.getWidget[i].custom)
    /\ \A i \in 1..Len(loadedWidgets) :
          loadedWidgets[i].isAttachWidget =>
             \E j \in 1..Len(calls.getWidget) :
                calls.getWidget[j].custom = loadedWidgets[i].custom

\* An element with both attributes, naming different widgets, was resolved to
\* the widget `data-widget-id` names; another with an empty `data-widget-id`
\* was looked up by its `id`.
C10_Witness ==
    \E i, j \in 1..Len(calls.getWidget) :
        LET a == calls.getWidget[i].custom
            b == calls.getWidget[j].custom
        IN  /\ getAttribute(a, "data-widget-id") = IdFoo
            /\ getAttribute(a, "id") = IdBar
            /\ widgetOf[a] = widgetRegistry[IdFoo]
            /\ getAttribute(b, "data-widget-id") = <<>>
            /\ calls.getWidget[j].id = getAttribute(b, "id")

\* The attach-widget elements, and those among them with neither attribute.
AttachNodes == {n \in CustomNodes : IsOf(n) = AttachWidgetName}

Anonymous(n) ==
    /\ n \in AttachNodes
    /\ getAttribute(n, "data-widget-id") = Null
    /\ getAttribute(n, "id") = Null

InSurface(n) ==
    \E r \in CustomAncestors(n) : IsOf(r) = ProjectionSurfaceName

\* The markup has none of the two structural violations.
WellRooted == \A n \in Nodes : ~Unrooted(n) /\ ~NestedSurface(n)

\* C11 as stated: when an attach-widget element inside a projection surface
\* has neither `data-widget-id` nor `id`, realize rejects with 'Cannot resolve
\* widget for a custom element without ...'.
C11_AsStated ==
    [][(RealizeStep /\ \E n \in Nodes : Anonymous(n) /\ InSurface(n))
          => (pc' = "rejected" /\ error' = ErrNoId)]_vars

\* C11, amended: when the markup has no structural violation, an
\* attach-widget element has neither `data-widget-id` nor `id`, and no
\* custom-element factory throws before that element is reached, the promise
\* of realize is rejected with 'Cannot resolve widget for a custom element
\* without ...' in the very step that scans the markup.
C11_MissingIdRejected ==
    [][(/\ RealizeStep
        /\ WellRooted
        /\ \E n \in Nodes : Anonymous(n)
        /\ error' # ErrFactoryThrew)
          => (pc' = "rejected" /\ error' = ErrNoId)]_vars

\* The element without identifier follows, in another batch of the same
\* surface, an attach-widget element whose lookup was begun.
C11_Witness ==
    /\ RejectedWith(ErrNoId)
    /\ calls.getWidget # <<>>
    /\ \E n, m \in Nodes :
          /\ Anonymous(n)
          /\ m \in CustomAncestors(n)
          /\ m \in AttachNodes
          /\ m = calls.getWidget[1].custom

\* The getWidget calls of realize whose identifier has no entry in the
\* registry.
FailedLookups ==
    {i \in 1..Len(calls.getWidget) :
        getWidget(calls.getWidget[i].id).error # NoError}

\* The promise of the widget of custom element c was rejected.
PromiseRejected(c) ==
    \E j \in 1..Len(loadedWidgets) :
        loadedWidgets[j].custom = c /\ loadedWidgets[j].state = "rejected"

\* C12 as stated: when realize looks up an identifier that is not registered,
\* it rejects with the rejection of getWidget, and no widget is appended and no
\* projector attached.
C12_AsStated ==
    (FailedLookups # {} /\ pc \notin {"idle", "loading"}) =>
        /\ RejectedWith(ErrNotFound)
        /\ calls.append = <<>>
        /\ calls.attach = <<>>

\* C12, amended: when realize looks up an identifier that is not registered,
\* it never fulfils, it is rejected as soon as the promise of that lookup is,
\* no widget is appended and no projector attached; the rejection is that of
\* getWidget unless the executor threw or the promise of a factory was
\* rejected.
C12_UnregisteredRejected ==
    \A i \in FailedLookups :
        /\ pc \in {"loading", "rejected"}
        /\ PromiseRejected(calls.getWidget[i].custom) => pc = "rejected"
        /\ calls.append = <<>>
        /\ calls.attach = <<>>
        /\ pc = "rejected" =>
              \/ error = ErrNotFound
              \/ error \in {ErrNoId, ErrFactoryThrew}
              \/ \E j \in 1..Len(loadedWidgets) :
                    /\ ~loadedWidgets[j].isAttachWidget
                    /\ loadedWidgets[j].state = "rejected"

\* The lookup of an unregistered identifier rejected realize after another
\* widget was loaded, with a hierarchy to build and a projector to attach.
C12_Witness ==
    /\ RejectedWith(ErrNotFound)
    /\ appendQueue # <<>>
    /\ projectors # <<>>
    /\ \E i \in FailedLookups : PromiseRejected(calls.getWidget[i].custom)
    /\ \E j \in 1..Len(loadedWidgets) : loadedWidgets[j].state = "fulfilled"

\* A tag name with the letters A-Z, and no other character, replaced by their
\* lower-case forms.
AsciiLowered(t) ==
    [i \in 1..Len(t) |->
        IF \E k \in 1..26 : AsciiUpper[k] = t[i]
        THEN AsciiLower[CHOOSE k \in 1..26 : AsciiUpper[k] = t[i]]
        ELSE t[i]]

\* The names that make an element custom.
CustomNames == {ProjectionSurfaceName, AttachWidgetName} \cup customElementFactories

\* The scan of realize took element n for a custom element.
Scanned(n) == forest.is[n] # Null

StructuralError == error \in {ErrNotRooted, ErrNestedSurface}

\* C13: the tag name is compared after its letters A-Z, and nothing else, are
\* folded to lower case; an `is` value is compared as it is, so that one that
\* differs from a custom name by case does not make a custom element.
C13_AsciiFoldOfTagOnly ==
    (pc # "idle" /\ ~StructuralError) =>
        \A n \in Nodes :
            /\ normalizeTagName(elements[n].tagName) = AsciiLowered(elements[n].tagName)
            /\ ~Truthy(getAttribute(n, "is")) =>
                  (Scanned(n) <=> AsciiLowered(elements[n].tagName) \in CustomNames)
            /\ Truthy(getAttribute(n, "is")) =>
                  (Scanned(n) <=> getAttribute(n, "is") \in CustomNames)

\* A realize that took the element with tag FOO-<U+0130> for the registered
\* custom element and the element with is="AtTaCh-WiDgEt" for a plain one.
C13_Witness ==
    /\ pc = "resolved"
    /\ \E n, m \in Nodes :
          /\ elements[n].tagName = TagFooIDot
          /\ forest.is[n] = FooIDotName
          /\ widgetOf[n] # NoWidget
          /\ getAttribute(m, "is") = IsMixedCaseAttachWidget
          /\ ~Scanned(m)

\* The identity of an element: its `is` attribute when present and not empty,
\* its tag name in ASCII lower case otherwise.
EffectiveIdentity(n) ==
    IF getAttribute(n, "is") \notin {Null, <<>>}
    THEN getAttribute(n, "is")
    ELSE AsciiLowered(elements[n].tagName)

\* C14: a custom element is treated according to its `is` attribute when that
\* is present and not empty and according to its lower-cased tag name
\* otherwise: the surfaces are the elements whose identity is
\* projection-surface, whatever their tag, the widgets looked up in the
\* registry are those of the elements whose identity is attach-widget, and no
\* widget is resolved for a surface. In these markups only the root can be a
\* surface, and when it is one, by tag or by `is`, realize finds no structural
\* violation.
C14_IsAttributeFirst ==
    pc # "idle" =>
        /\ EffectiveIdentity(1) = ProjectionSurfaceName => ~StructuralError
        /\ \A n \in Nodes : Scanned(n) =>
              /\ forest.is[n] = EffectiveIdentity(n)
              /\ n \in Range(forest.surfaces)
                    <=> EffectiveIdentity(n) = ProjectionSurfaceName
        /\ \A j \in 1..Len(loadedWidgets) :
              /\ loadedWidgets[j].custom \notin Range(forest.surfaces)
              /\ loadedWidgets[j].isAttachWidget
                    <=> EffectiveIdentity(loadedWidgets[j].custom) = AttachWidgetName

\* The root, an attach-widget tag with is="projection-surface", got a
\* projector and no widget, and an element with a registered tag and
\* is="attach-widget" was resolved through the registry.
C14_Witness ==
    /\ pc = "resolved"
    /\ elements[1].tagName = TagAttachWidget
    /\ 1 \in Range(calls.createProjector)
    /\ widgetOf[1] = NoWidget
    /\ \E n \in Nodes :
          /\ elements[n].tagName = TagFooBar
          /\ getAttribute(n, "is") = AttachWidgetName
          /\ widgetOf[n] = widgetRegistry[IdFoo]
          /\ \E i \in 1..Len(calls.getWidget) : calls.getWidget[i].custom = n

\* No element of the markup has the identity of a custom element.
NoCustomElement == \A n \in Nodes : EffectiveIdentity(n) \notin CustomNames

\* C15: for a markup without custom element, whatever the hyphens in its tag
\* names and its `is` attributes, realize is never rejected and does resolve,
\* creates no projector, invokes no factory, looks up no widget and leaves the
\* DOM as it was.
C15_UnknownElementsSkipped ==
    /\ [](NoCustomElement =>
            /\ pc # "rejected"
            /\ calls.createProjector = <<>>
            /\ calls.factory = <<>>
            /\ calls.getWidget = <<>>
            /\ childNodes = markup)
    /\ (NoCustomElement /\ pc # "idle") ~> (pc = "resolved")

\* A realize that resolved for a markup whose elements have hyphenated tag
\* names and `is` attributes, none of them custom.
C15_Witness ==
    /\ pc = "resolved"
    /\ NoCustomElement
    /\ \E n, m \in Nodes :
          /\ "-" \in Range(elements[n].tagName)
          /\ getAttribute(m, "is") \in {IsUnknown, IsMixedCaseAttachWidget}

\* The parent of element c in the markup, and its nearest ancestor among the
\* elements of the set custom; the root of the markup has neither.
MarkupParent(c) == CHOOSE p \in Nodes : c \in Range(markup[p])

RECURSIVE NearestAncestorIn(_, _)
NearestAncestorIn(custom, c) ==
    IF c = 1 THEN {}
    ELSE IF MarkupParent(c) \in custom THEN {MarkupParent(c)}
    ELSE NearestAncestorIn(custom, MarkupParent(c))

\* The elements of the markup in document order, and those among them whose
\* nearest custom ancestor, as the function nearest gives it, is n.
MarkupOrder == <<1>> \o getElementsByTagName(markup, 1)

ChildrenOf(n, order, custom, nearest) ==
    LET IsChild(c) == c \in custom /\ nearest[c] = {n}
    IN  SelectSeq(order, IsChild)

\* The append calls made on target t.
AppendCallsTo(t) ==
    LET IsTo(call) == call.target = t IN SelectSeq(calls.append, IsTo)

\* C16: after a successful realize the widget of every custom element with
\* custom descendants has received one append call, with the widgets of the
\* custom elements whose nearest custom ancestor it is, in document order and
\* whatever the plain elements in between; the widget of a custom element
\* without custom children has received none.
C16_HierarchyMirrorsNesting ==
    pc = "resolved" =>
        LET custom == CustomNodes
            order == MarkupOrder
            nearest == [c \in Nodes |-> NearestAncestorIn(custom, c)]
        IN  \A n \in custom : IsOf(n) # ProjectionSurfaceName =>
               LET children == ChildrenOf(n, order, custom, nearest)
                   expected == [target |-> WidgetTarget(widgetOf[n]),
                                widgets |-> [i \in 1..Len(children) |->
                                                widgetOf[children[i]]]]
               IN  AppendCallsTo(WidgetTarget(widgetOf[n])) =
                      IF children = <<>> THEN <<>> ELSE <<expected>>

\* A successful realize in which one widget was given the widgets of two
\* custom children.
C16_Witness ==
    /\ pc = "resolved"
    /\ \E i \in 1..Len(calls.append) :
          /\ calls.append[i].target.kind = "widget"
          /\ Len(calls.append[i].widgets) = 2

\* The projection surfaces of the markup.
SurfaceNodes == {n \in CustomNodes : IsOf(n) = ProjectionSurfaceName}

\* The widgets appended to target t, over all append calls, in order.
RECURSIVE Appended(_, _)
Appended(t, log) ==
    IF log = <<>> THEN <<>>
    ELSE (IF Head(log).target = t THEN Head(log).widgets ELSE <<>>)
            \o Appended(t, Tail(log))

\* C17: once realize has attached its projectors, every projection surface of
\* the markup, the root and a surface without custom children included, has one
\* projector, created for its element; that projector was given the widgets of
\* the surface's immediate custom children, in document order, and no other
\* widget; attach was called on it once; and nothing else has a projector.
C17_OneProjectorPerSurface ==
    pc \in {"attaching", "resolved"} =>
        LET custom == CustomNodes
            order == MarkupOrder
            nearest == [c \in Nodes |-> NearestAncestorIn(custom, c)]
            surfaces == {n \in custom : IsOf(n) = ProjectionSurfaceName}
        IN  /\ \A r \in surfaces :
                  /\ Count(r, calls.createProjector) = 1
                  /\ Count(r, calls.attach) = 1
                  /\ LET children == ChildrenOf(r, order, custom, nearest) IN
                     Appended(ProjectorTarget(r), calls.append) =
                        [i \in 1..Len(children) |-> widgetOf[children[i]]]
            /\ Range(calls.createProjector) \subseteq surfaces
            /\ Len(calls.attach) = Len(calls.createProjector)

\* A successful realize of a markup with two surfaces, one of them without
\* custom children, the other with a widget.
C17_Witness ==
    /\ pc = "resolved"
    /\ \E r, q \in SurfaceNodes :
          /\ r # q
          /\ projectorState[r].children = <<>>
          /\ Appended(ProjectorTarget(q), calls.append) # <<>>
          /\ projectorState[r].attach = "attached"

\* The naming rule: the name starts with one of a-z, contains a hyphen,
\* contains none of A-Z and is none of the ten reserved names.
NamingRule(name) ==
    /\ name # <<>>
    /\ \E i \in 1..Len(AsciiLower) : name[1] = AsciiLower[i]
    /\ \E i \in 1..Len(name) : name[i] = "-"
    /\ \A i \in 1..Len(name) : \A j \in 1..Len(AsciiUpper) : name[i] # AsciiUpper[j]
    /\ name \notin {AnnotationXmlName, ColorProfileName, FontFaceName,
                    FontFaceSrcName, FontFaceUriName, FontFaceFormatName,
                    FontFaceNameName, MissingGlyphName}
    /\ name \notin {AttachWidgetName, ProjectionSurfaceName}

\* The step is a call of registerCustomElementFactory(name, factory).
RegistersName(name) == RegisterCustomElementFactory(name)

\* C18: isValidName(name) is true exactly when the name follows the naming
\* rule, there are ten reserved names, and registerCustomElementFactory with
\* a name that does not follow the rule throws "'<name>' is not a valid custom
\* element name" and registers nothing.
C18_NamingRule ==
    /\ [](/\ \A name \in NameCandidates : isValidName(name) = NamingRule(name)
          /\ Cardinality(reservedNames) = 10)
    /\ [][\A name \in NameCandidates :
             RegistersName(name) /\ ~NamingRule(name) =>
                /\ thrown' = <<"'">> \o name
                                \o <<"'", " is not a valid custom element name">>
                /\ customElementFactories' = customElementFactories
                /\ registrations' = registrations
                /\ entries' = entries]_vars

\* A reserved name was refused after a valid name was registered, which is
\* the only name registered.
C18_Witness ==
    /\ thrown = InvalidNameMessage(FontFaceName)
    /\ customElementFactories = {FooBarName}
    /\ Len(registrations) = 1

\* The handles returned so far.
Handles == 1..Len(registrations)

\* Handle h was returned for this identifier of this kind.
HandleOf(h, kind, id) ==
    registrations[h].kind = kind /\ registrations[h].id = id

\* Handle h has not been destroyed.
Live(h) == ~registrations[h].destroyed

\* The step is a destroy() of handle h after its first destroy().
LaterDestroy(h) ==
    /\ h \in Handles
    /\ registrations[h].destroyed
    /\ DestroyHandle(h)

\* C19: after the destroy of a handle, has(id) is false for its identifier
\* whether its factory has been resolved or not, unless the identifier has
\* been registered again, and then it is true as long as the handle of that
\* registration is not destroyed; every later destroy of a handle changes
\* nothing in the registries.
C19_DestroyDeregistersOnce ==
    /\ [](/\ \A kind \in Kinds, id \in RegistryIds :
                has(kind, id) =>
                   /\ entries[<<kind, id>>] \in Handles
                   /\ HandleOf(entries[<<kind, id>>], kind, id)
                   /\ Live(entries[<<kind, id>>])
          /\ \A h \in Handles :
                registrations[h].kind \in Kinds /\ Live(h) =>
                   entries[<<registrations[h].kind, registrations[h].id>>] = h
          /\ customElementFactories =
                {registrations[h].id :
                    h \in {g \in Handles :
                              /\ registrations[g].kind = CustomElementKind
                              /\ Live(g)}})
    /\ [][\A h \in 1..MaxHandles :
             LaterDestroy(h) =>
                UNCHANGED <<entries, customElementFactories, registrations,
                            promises, thrown>>]_vars

\* The handle of a factory was destroyed after the factory was resolved, and
\* the identifier has been registered again since.
C19_Witness ==
    \E a \in Handles, b \in Handles :
       /\ a < b
       /\ registrations[a].destroyed
       /\ registrations[a].producer = "factory"
       /\ registrations[a].state = "resolved"
       /\ registrations[a].kind \in Kinds
       /\ HandleOf(b, registrations[a].kind, registrations[a].id)
       /\ Live(b)
       /\ has(registrations[b].kind, registrations[b].id)

\* The handles returned by registerActionFactory, registerStoreFactory and
\* registerWidgetFactory.
FactoryHandles ==
    {h \in Handles :
        registrations[h].kind \in Kinds /\ registrations[h].producer = "factory"}

\* The promises get(id) returned for the entry of handle h.
PromisesOf(h) == {p \in DOMAIN promises : p.registration = h}

\* The resolutions of the factory of handle h that failed.
FailedRounds(h) == {p.round : p \in {q \in PromisesOf(h) : q.state = "rejected"}}

\* C20: the factory of a registration is called once at most by the get(id)
\* calls made before its first resolution settles and after a resolution
\* that succeeded, a further call needing a resolution that failed; it has
\* been called once for the resolution that succeeded when a promise is
\* fulfilled; the promises of one resolution settle alike, and all fulfilled
\* promises hold the same instance, the one the entry caches.
C20_FactoryCalledOnce ==
    \A h \in FactoryHandles :
       LET r == registrations[h]
           failed == Cardinality(FailedRounds(h))
       IN  /\ r.invocations <= failed + 1
           /\ r.rounds <= failed + 1
           /\ \A p \in PromisesOf(h) :
                 /\ p.state = "fulfilled" =>
                       /\ r.invocations = failed + 1
                       /\ p.value = r.instance
                       /\ p.value # NoInstance
                 /\ \A q \in PromisesOf(h) :
                       p.round = q.round =>
                          /\ p.state = q.state
                          /\ p.value = q.value
                          /\ p.error = q.error

\* Two get(id) calls were made before the resolution of a factory settled
\* and one after it had succeeded; the factory has been called once and all
\* three promises are fulfilled with its instance.
C20_Witness ==
    \E h \in FactoryHandles :
       /\ registrations[h].invocations = 1
       /\ \E p \in PromisesOf(h), q \in PromisesOf(h) :
             /\ ~p.immediate
             /\ p.state = "fulfilled"
             /\ CopiesIn(p, promises) >= 2
             /\ q.immediate
             /\ q.state = "fulfilled"
             /\ q.value = p.value

\* The number of calls made of the factory of handle h, in a state in which
\* the handle may not exist yet.
Invocations(regs, h) == IF h \in 1..Len(regs) THEN regs[h].invocations ELSE 0

\* The step is a register operation that returned a handle, or a get(id).
RegisterOrGetStep ==
    \/ Len(registrations') = Len(registrations) + 1
    \/ BagCardinality(promises') = BagCardinality(promises) + 1

\* C21: no register operation and no get(id) calls a factory before it
\* returns, a factory no get(id) has asked for has not been called (has(id)
\* reads the entries only), and the factory has been called when a promise
\* get(id) returned for it while it was not resolved is fulfilled.
C21_FactoryCalledLazily ==
    /\ [](\A h \in FactoryHandles :
             /\ registrations[h].rounds = 0 => registrations[h].invocations = 0
             /\ \A p \in PromisesOf(h) :
                   p.state = "fulfilled" => registrations[h].invocations >= 1)
    /\ [][RegisterOrGetStep =>
             \A h \in 1..MaxHandles :
                Invocations(registrations', h) = Invocations(registrations, h)]_vars

\* get(id) has returned a pending promise for a factory that has not been
\* called yet, and a promise of another factory is fulfilled after the one
\* call of that factory.
C21_Witness ==
    \E a \in FactoryHandles, b \in FactoryHandles :
       /\ registrations[a].state = "requested"
       /\ registrations[a].invocations = 0
       /\ \E p \in PromisesOf(a) : p.state = "pending"
       /\ registrations[b].invocations = 1
       /\ \E p \in PromisesOf(b) : p.state = "fulfilled" /\ ~p.immediate

\* The step is a call of register(id, instance) or registerFactory(id,
\* factory) of this kind.
Registers(kind, id) ==
    \/ Register(kind, id, "instance")
    \/ Register(kind, id, "factory")

\* The call threw a duplicate error at once: nothing is registered, no entry
\* changed and no resolution begun or settled.
ThrewDuplicate ==
    /\ thrown' = ErrDuplicate
    /\ UNCHANGED <<registrations, entries, promises, customElementFactories>>

\* C22 as stated: a register operation throws whenever the identifier is
\* registered as an action, as a store or as a widget.
C22_AsStated ==
    [][\A kind \in Kinds, id \in RegistryIds :
          Registers(kind, id) /\ (\E k \in Kinds : has(k, id)) =>
             ThrewDuplicate]_vars

\* C22: a register operation throws at once, registering nothing, whenever
\* the identifier is registered as the same kind, by instance or by factory,
\* resolved or not.
C22_DuplicateThrows ==
    [][\A kind \in Kinds, id \in RegistryIds :
          Registers(kind, id) /\ has(kind, id) => ThrewDuplicate]_vars

\* A register operation threw for an identifier that is registered, with
\* the entry of the first registration in place and no custom element
\* registered.
C22_Witness ==
    /\ thrown = ErrDuplicate
    /\ \A g \in Handles : registrations[g].kind \in Kinds
    /\ \E h \in Handles :
          /\ registrations[h].kind \in Kinds
          /\ Live(h)
          /\ entries[<<registrations[h].kind, registrations[h].id>>] = h

\* The step is a call of loadDefinition with a definition of this kind for
\* this identifier.
LoadsDefinition(kind, id) ==
    \E kinds \in SUBSET Kinds : kind \in kinds /\ LoadDefinition(kinds, id)

\* C23: while an identifier is registered as one kind, registering it again
\* as that kind throws, by instance, by factory and through loadDefinition,
\* and leaves its entry as it is; registering an identifier that is not
\* registered as that kind does not throw, whatever it is registered as
\* under the other kinds.
C23_DuplicatesPerKind ==
    [][\A kind \in Kinds, id \in RegistryIds :
          /\ has(kind, id) /\ Registers(kind, id) => ThrewDuplicate
          /\ has(kind, id) /\ LoadsDefinition(kind, id) =>
                /\ thrown' = ErrDuplicate
                /\ entries'[<<kind, id>>] = entries[<<kind, id>>]
                /\ HandlesReturned' = HandlesReturned
          /\ ~has(kind, id) /\ Registers(kind, id) =>
                /\ thrown' = NothingThrown
                /\ entries'[<<kind, id>>] = Len(registrations')
                /\ \A k \in Kinds \ {kind} :
                      entries'[<<k, id>>] = entries[<<k, id>>]]_vars

\* One identifier is registered as an action and as a store by two register
\* operations, neither of which threw.
C23_Witness ==
    /\ thrown = NothingThrown
    /\ \E a \in Handles, b \in Handles, id \in RegistryIds :
          /\ a < b
          /\ HandleOf(a, "action", id) /\ Live(a) /\ registrations[a].handle = a
          /\ HandleOf(b, "store", id) /\ Live(b) /\ registrations[b].handle = b
          /\ has("action", id)
          /\ has("store", id)

\* No handle returned for this identifier of this kind is left undestroyed:
\* the identifier was never registered, or every handle for it is destroyed.
Deregistered(kind, id) ==
    \A h \in Handles : HandleOf(h, kind, id) => registrations[h].destroyed

\* The step added one promise, which is rejected for want of an entry.
ReturnedRejected ==
    /\ BagCardinality(promises') = BagCardinality(promises) + 1
    /\ \E p \in DOMAIN promises' :
          /\ p.state = "rejected"
          /\ p.error = ErrNotFound
          /\ p.registration = NoRegistration
          /\ CopiesIn(p, promises') = CopiesIn(p, promises) + 1

\* C24: get(id) for an identifier that has no entry when it is called, never
\* registered or with its handle destroyed before the call, returns a
\* rejected promise: it throws nothing, calls no factory and changes no
\* entry.
C24_MissingEntryRejects ==
    [][\A kind \in Kinds :
          Get(kind, IdFoo) /\ Deregistered(kind, IdFoo) =>
             /\ ReturnedRejected
             /\ UNCHANGED <<thrown, registrations, entries>>]_vars

\* A get(id) made before the destroy of the handle was fulfilled and one
\* made after it is rejected.
C24_Witness ==
    \E h \in Handles :
       /\ registrations[h].kind \in Kinds
       /\ registrations[h].destroyed
       /\ Deregistered(registrations[h].kind, registrations[h].id)
       /\ \E p \in PromisesOf(h) : p.state = "fulfilled"
       /\ BagCardinality(promises) = 2
       /\ CopiesIn(NotFound, promises) = 1

\* The handles of the actions, which have a configure hook.
ConfiguredHandles ==
    {h \in Handles : registrations[h].configure # "none"}

\* C25: for an action with a configure hook, however it was registered, the
\* promise of getAction(id) is fulfilled only once configure has completed,
\* and with the action; it is pending as long as configure has not been
\* called or has not settled; and once configure threw or its promise
\* rejected, the promise is rejected with the error of configure and no
\* other.
C25_GetAwaitsConfigure ==
    \A p \in DOMAIN promises :
       p.registration \in ConfiguredHandles =>
          LET r == registrations[p.registration]
          IN  /\ p.state = "fulfilled" =>
                    r.configure = "completed" /\ p.value = r.instance
              /\ ( /\ r.configure \in {"uncalled", "called"}
                   /\ p.round = r.rounds
                   /\ r.state # "unresolved" ) => p.state = "pending"
              /\ r.configure = "failed" /\ p.round = r.rounds =>
                    /\ p.state = "rejected"
                    /\ r.error \in ConfigureErrors
                    /\ p.error = r.error
              /\ p.state = "rejected" /\ p.error # ErrFactoryRejected =>
                    r.configure = "failed" /\ p.error = r.error

\* An action registered by instance whose configure returned a promise that
\* rejected, with the promise of getAction(id) rejected in a later turn with
\* that error, and after its handle was destroyed an action registered by
\* factory (or through loadDefinition) whose configure completed, with the
\* promise of getAction(id) fulfilled in a later turn.
C25_Witness ==
    \E g, h \in ConfiguredHandles :
       /\ registrations[g].producer = "instance"
       /\ registrations[g].configure = "failed"
       /\ \E p \in PromisesOf(g) :
             /\ ~p.immediate
             /\ p.state = "rejected"
             /\ p.error = ErrConfigureRejected
       /\ registrations[h].producer = "factory"
       /\ registrations[h].configure = "completed"
       /\ \E p \in PromisesOf(h) :
             /\ ~p.immediate
             /\ p.state = "fulfilled"
             /\ p.value = Instance(h, 1)

\* C26: configure is not called by the registration of an action, nor
\* before the first getAction(id) for it; it is called at most once for a
\* registered action, and exactly once for an action that getAction(id)
\* resolved or that it rejected with the error of configure, however many
\* promises getAction(id) returned for it.
C26_ConfiguredOnce ==
    \A h \in ConfiguredHandles :
       LET r == registrations[h]
       IN  /\ r.configureCalls <= 1
           /\ r.rounds = 0 =>
                 r.configureCalls = 0 /\ r.configure = "uncalled"
           /\ r.configure = "uncalled" <=> r.configureCalls = 0
           /\ (\E p \in PromisesOf(h) :
                  \/ p.state = "fulfilled"
                  \/ p.state = "rejected" /\ p.error \in ConfigureErrors)
                 => r.configureCalls = 1

\* Two calls of getAction(id) made before configure was called and one made
\* after it completed, all three fulfilled, with configure called once.
C26_Witness ==
    \E h \in ConfiguredHandles :
       /\ registrations[h].configureCalls = 1
       /\ registrations[h].configure = "completed"
       /\ \E p \in PromisesOf(h) :
             ~p.immediate /\ p.state = "fulfilled" /\ CopiesIn(p, promises) = 2
       /\ \E p \in PromisesOf(h) :
             p.immediate /\ p.state = "fulfilled" /\ CopiesIn(p, promises) = 1

\* The registrations of the call that returned handle h.
RegisteredBy(h) == {i \in Handles : registrations[i].handle = h}

\* The step is the first destroy() of handle h.
FirstDestroy(h) ==
    /\ h \in Handles
    /\ registrations[h].handle = h
    /\ ~registrations[h].destroyed
    /\ DestroyHandle(h)

\* C27: the first destroy() of the handle loadDefinition returned removes
\* the entry of every action, store and widget the call registered, and
\* leaves every other entry, registered by another call, as it is.
C27_DestroyRemovesDefinition ==
    [][\A h \in Handles :
          FirstDestroy(h) =>
             \A key \in EntryKeys :
                IF \E i \in RegisteredBy(h) :
                      <<registrations[i].kind, registrations[i].id>> = key
                THEN entries'[key] = NoRegistration
                ELSE entries'[key] = entries[key]]_vars

\* The handle of a loadDefinition call that registered an action, a store
\* and a widget has been destroyed and none of the three is registered,
\* while an action registered by another call under another identifier
\* still is.
C27_Witness ==
    \E h \in Handles :
       /\ registrations[h].destroyed
       /\ {registrations[i].kind : i \in RegisteredBy(h)} = Kinds
       /\ \A i \in RegisteredBy(h) :
             ~has(registrations[i].kind, registrations[i].id)
       /\ \E g \in Handles \ RegisteredBy(h) :
             /\ registrations[g].kind = "action"
             /\ registrations[g].id # registrations[h].id
             /\ Live(g)
             /\ entries[<<"action", registrations[g].id>>] = g

\* The custom elements whose widget promise is among loadedWidgets and comes
\* from a factory.
FactoryLoaded ==
    {loadedWidgets[i].custom :
        i \in {j \in 1..Len(loadedWidgets) : ~loadedWidgets[j].isAttachWidget}}

\* The document is as it was when realize was called, every factory whose
\* promise was pushed is among those called, as is the one that threw;
\* nothing was destroyed and the widgets the factories produced are held.
RejectionLeavesDocument ==
    /\ childNodes = markup
    /\ FactoryLoaded \subseteq Range(calls.factory)
    /\ error = ErrFactoryThrew =>
          Len(calls.factory) = Cardinality(FactoryLoaded) + 1
    /\ calls.destroy = <<>>
    /\ \A i \in 1..Len(loadedWidgets) :
          (~loadedWidgets[i].isAttachWidget
              /\ loadedWidgets[i].state = "fulfilled")
             => loadedWidgets[i].outcome.widget \in Range(managedWidgets)

\* C28: in the step in which realize rejects, and in every step after it,
\* whether it rejects for a structural error, an attach-widget
\* element without identifier or with one the registry does not know, a
\* factory that threw or rejected, or a widget that is a duplicate or has a
\* parent, the child nodes of every element are those of the time realize
\* was called; the factories that were called remain called, and what they
\* produced is neither destroyed nor forgotten.
C28_RejectionLeavesDocument ==
    [][pc' = "rejected" => RejectionLeavesDocument']_vars

\* A realization rejected for a factory whose promise rejected, after
\* another factory was called and its widget loaded.
C28_Witness ==
    /\ RejectedWith(ErrFactoryRejected)
    /\ Len(calls.factory) >= 2
    /\ managedWidgets # <<>>
    /\ childNodes = markup

\* The widget promises of the realization that are in this state.
WidgetPromises(state) ==
    {i \in 1..Len(loadedWidgets) : loadedWidgets[i].state = state}

\* The custom elements of the forest that are resolved to a widget.
ForestWidgets ==
    UNION {TreeNodes(forest, r) : r \in Range(forest.surfaces)}
       \ Range(forest.surfaces)

\* C29: when the executor of realize has run without a throw, the
\* resolution of every custom element of the forest has been started, by a
\* call of its factory or of getWidget, before any of them settles; as long
\* as one of them is pending, append has been called on no widget and on no
\* projector and no projector has been attached; and once one of them has
\* rejected, realize is rejected and neither has happened.
C29_AssemblyAfterEveryResolution ==
    /\ pc = "loading" =>
          /\ {loadedWidgets[i].custom : i \in 1..Len(loadedWidgets)}
                = ForestWidgets
          /\ Len(calls.getWidget) + Len(calls.factory) = Len(loadedWidgets)
    /\ WidgetPromises("pending") # {} =>
          calls.append = <<>> /\ calls.attach = <<>>
    /\ WidgetPromises("rejected") # {} =>
          /\ pc = "rejected"
          /\ calls.append = <<>> /\ calls.attach = <<>>

\* The second of three resolutions has rejected and with it realize, the
\* third has fulfilled after that and before the first, which is pending;
\* there were widgets to append and a projector to attach.
C29_Witness ==
    /\ Len(loadedWidgets) = 3
    /\ loadedWidgets[1].state = "pending"
    /\ loadedWidgets[2].state = "rejected"
    /\ loadedWidgets[3].state = "fulfilled"
    /\ RejectedWith(loadedWidgets[2].outcome.error)
    /\ appendQueue # <<>>
    /\ projectors # <<>>

\* The executor of realize has run to its end, without a throw.
ExecutorCompleted == pc \in {"loading", "attaching", "resolved"}

\* The custom elements resolved to a widget that have a custom element
\* among their descendants in the markup.
WithCustomChildren ==
    {n \in ResolvableNodes :
        \E c \in CustomNodes : ContainedBy(markup, n, c)}

\* No custom element is twice in the append-queue, and an element of the
\* queue comes before every element of the queue that is an ancestor of it
\* in the markup; after an executor that ran to its end the queue holds
\* the custom elements resolved to a widget that have custom children.
AppendQueueBottomUp ==
    /\ \A i, j \in 1..Len(appendQueue) :
          /\ i # j => appendQueue[i] # appendQueue[j]
          /\ ContainedBy(markup, appendQueue[j], appendQueue[i]) => i < j
    /\ ExecutorCompleted => Range(appendQueue) = WithCustomChildren

C31_ListenerRunsOnce ==
    [][\A r \in Nodes :
          ProjectorSignalsAgain(r) =>
             /\ ~projectorState[r].listener
             /\ UNCHANGED childNodes]_vars

\* A projector whose placeholders were replaced at its first 'attach' signal
\* has signalled 'attach' a second time.
C31_Witness ==
    \E r \in Range(projectors) :
       /\ projectorState[r].signals = 2
       /\ projectorState[r].placeholders # <<>>
       /\ ~projectorState[r].listener
       /\ childNodes # markup

\* The projectors whose attach promise is in this state.
ProjectorsWith(attach) ==
    {r \in Range(projectors) : projectorState[r].attach = attach}

\* C32: realize is fulfilled with its handle only when the attach promise
\* of every projector is fulfilled; once the attach promise of a projector
\* has rejected, realize is rejected with that error and there is no handle
\* to call destroy on.
C32_FulfilsAfterEveryAttach ==
    /\ pc = "resolved" => ProjectorsWith("attached") = Range(projectors)
    /\ ProjectorsWith("rejected") # {} =>
          /\ RejectedWith(ErrAttachRejected)
          /\ calls.handleDestroy = 0
          /\ calls.destroy = <<>>

\* Of two projectors one is attached, with its placeholders replaced, and
\* the attach of the other has rejected: realize is rejected.
C32_Witness ==
    /\ Len(projectors) = 2
    /\ ProjectorsWith("attached") # {}
    /\ ProjectorsWith("rejected") # {}
    /\ childNodes # markup
    /\ pc = "rejected"

\* The places a custom element takes in the forest: as a root, and as a child
\* of a node.
ForestPlaces(c) ==
    {<<0, i>> : i \in {i \in 1..Len(forest.surfaces) : forest.surfaces[i] = c}}
    \cup {pl \in Nodes \X (1..MaxNodes) :
             /\ pl[2] <= Len(forest.children[pl[1]])
             /\ forest.children[pl[1]][pl[2]] = c}

InDocumentOrder(s) ==
    \A i, j \in 1..Len(s) : i < j => Position(s[i]) < Position(s[j])

ForestWellFormed ==
    /\ \A c \in CustomNodes :
          /\ Cardinality(ForestPlaces(c)) = 1
          /\ Cardinality({r \in Range(forest.surfaces) :
                             c \in TreeNodes(forest, r)}) = 1
          /\ c \in Range(forest.surfaces) <=> forest.is[c] = ProjectionSurfaceName
    /\ \A n \in Nodes \ CustomNodes :
          ForestPlaces(n) = {} /\ forest.children[n] = <<>>
    /\ InDocumentOrder(forest.surfaces)
    /\ \A n \in Nodes : InDocumentOrder(forest.children[n])

\* C34: when the tree reconstruction of realize returns without error, every
\* custom element of the scanned markup takes exactly one place in the forest
\* and belongs to exactly one tree, the roots of the forest are the projection
\* surfaces and no other node is one, and the list of surfaces and every
\* children list are in document order.
C34_ForestWellFormed ==
    [][(RealizeStep /\ error' \notin {ErrNotRooted, ErrNestedSurface})
          => ForestWellFormed']_vars

\* A forest of two trees, the first one with a child, was returned.
C34_Witness ==
    /\ pc # "idle"
    /\ Len(forest.surfaces) = 2
    /\ forest.children[forest.surfaces[1]] # <<>>
    /\ Position(forest.surfaces[1]) < Position(forest.surfaces[2])

\* Element n carries a non-empty `is` attribute that names no custom element.
ForeignIs(n) ==
    /\ Truthy(getAttribute(n, "is"))
    /\ getAttribute(n, "is") \notin CustomNames

\* The tag of element n alone would make it a custom element.
CustomTag(n) == normalizeTagName(elements[n].tagName) \in CustomNames

\* C38: an element with a non-empty `is` attribute that names no custom
\* element is treated as a plain element, whatever its tag name: it is no node
\* of the forest, no widget is looked up or made for it, it is no placeholder
\* of a projector, and it stays below its parent in the DOM; when no other
\* element is custom realize is not rejected.
C38_ForeignIsIsPlain ==
    /\ \A n \in Nodes : ForeignIs(n) =>
          /\ forest.is[n] = Null
          /\ ForestPlaces(n) = {}
          /\ widgetOf[n] = NoWidget
          /\ \A i \in 1..Len(calls.getWidget) : calls.getWidget[i].custom # n
          /\ n \notin Range(calls.factory)
          /\ \A i \in 1..Len(loadedWidgets) : loadedWidgets[i].custom # n
          /\ \A r \in Nodes : n \notin Range(projectorState[r].placeholders)
          /\ n \notin Range(projectors)
          /\ n # 1 => n \in Range(childNodes[MarkupParent(n)])
    /\ (\A n \in Nodes : ForeignIs(n) \/ ~CustomTag(n)) => pc # "rejected"

\* A successful realize whose projector was attached and replaced a
\* placeholder, with elements of attach-widget, projection-surface and
\* registered tag left in place below the surface for their `is` attribute.
C38_Witness ==
    /\ pc = "resolved"
    /\ childNodes # markup
    /\ \E n, m \in Nodes :
          /\ ForeignIs(n) /\ ForeignIs(m)
          /\ normalizeTagName(elements[n].tagName) = AttachWidgetName
          /\ normalizeTagName(elements[m].tagName) \in {ProjectionSurfaceName, FooBarName}
          /\ ContainedBy(markup, 1, n)

\* C35: a structural error is found before any resolution work: when realize
\* is rejected with 'Custom tags must be rooted in a projection-surface' or
\* 'projection-surface cannot contain another projection-surface', no factory
\* of a custom element was invoked, no widget was looked up in the registry and
\* no projector was created, whatever precedes the offending element.
C35_StructureBeforeResolution ==
    (RejectedWith(ErrNotRooted) \/ RejectedWith(ErrNestedSurface)) =>
        /\ calls.factory = <<>>
        /\ calls.getWidget = <<>>
        /\ calls.createProjector = <<>>
        /\ loadedWidgets = <<>>
        /\ projectors = <<>>

\* Realize was rejected for an unrooted custom element that follows a surface
\* with an attach-widget element in it.
C35_Witness ==
    /\ RejectedWith(ErrNotRooted)
    /\ \E s, a \in Nodes :
          /\ IsCustomNode(s) /\ IsOf(s) = ProjectionSurfaceName
          /\ IsCustomNode(a) /\ IsOf(a) = AttachWidgetName
          /\ ContainedBy(markup, s, a)
    /\ calls = NoCalls

\* C37: realize does not roll back: while realize is pending and once it is
\* rejected, whatever projectors were created and whatever widgets the
\* factories produced, destroy was called on none of them; the destroy calls
\* there are, are those of the first destroy() of the handle of a realize that
\* resolved.
C37_NoRollback ==
    /\ pc # "resolved" => calls.destroy = <<>> /\ calls.handleDestroy = 0
    /\ calls.destroy # <<>> =>
          /\ calls.handleDestroy >= 1
          /\ calls.destroy = DestroyAll

\* Realize was rejected by a projector's attach after a factory had produced a
\* widget and a widget had been appended.
C37_Witness ==
    /\ RejectedWith(ErrAttachRejected)
    /\ managedWidgets # <<>>
    /\ calls.append # <<>>
    /\ calls.destroy = <<>>

\* The state of the tree reconstruction of realize(root) on the markup after
\* k iterations of the loop over customElements; an iteration that throws
\* ends the loop.
Iteration(k) ==
    LET customElements == CustomElementsOf(markup, 1) IN
    Reconstruct(markup,
                [EmptyForest EXCEPT
                    !.is = [n \in Nodes |->
                               IF n \in Range(customElements) THEN IsOf(n) ELSE Null]],
                SubSeq(customElements, 1, k))

\* In state st, reached by the iteration for custom element c, the inverse
\* stack is the chain of c and its custom ancestors, innermost first and
\* ending in a projection surface, and c was added to its nearest custom
\* ancestor, or to the surfaces when it has none.
ChainAfter(st, c, ancestors, nearest) ==
    LET stack == st.inverseStack IN
    /\ stack # <<>>
    /\ stack[1] = c
    /\ \A i \in 1..Len(stack) - 1 : ContainedBy(markup, stack[i + 1], stack[i])
    /\ st.is[stack[Len(stack)]] = ProjectionSurfaceName
    /\ Range(stack) = {c} \cup ancestors
    /\ Len(stack) = Cardinality(Range(stack))
    /\ IF Len(stack) = 1
       THEN /\ nearest = {}
            /\ st.surfaces[Len(st.surfaces)] = c
       ELSE /\ nearest = {stack[2]}
            /\ st.children[stack[2]][Len(st.children[stack[2]])] = c

InverseStackIsChain ==
    \E customElements \in {CustomElementsOf(markup, 1)} :
    \E custom \in {Range(customElements)} :
       \A k \in 1..Len(customElements) :
          \E st \in {Iteration(k)} :
             st.error = NoError =>
                ChainAfter(st, customElements[k],
                           {a \in custom : ContainedBy(markup, a, customElements[k])},
                           NearestAncestorIn(custom, customElements[k]))

\* C40: during the tree reconstruction of realize the inverse stack is, after
\* every iteration, a chain of custom elements in which each entry is a
\* descendant of the entry after it, its first entry is the custom element
\* just processed and its last one a projection surface; the node the element
\* was added to is its nearest custom ancestor. The markup is the document
\* realize is called on, and the forest realize keeps is the state after the
\* last iteration.
C40_InverseStackIsChain ==
    [][RealizeStep =>
          /\ markup' = markup
          /\ InverseStackIsChain
          /\ error' \notin {ErrNotRooted, ErrNestedSurface}
                => forest' = Iteration(Len(CustomElementsOf(markup, 1)))]_vars

\* A reconstruction that discarded two nodes of the stack at once: the last
\* custom element is a child of the surface and follows a custom element with
\* a custom child of its own.
C40_Witness ==
    /\ pc # "idle"
    /\ Len(forest.inverseStack) = 2
    /\ \E a, b \in Nodes :
          /\ a \in Range(forest.children[forest.inverseStack[2]])
          /\ b \in Range(forest.children[a])
          /\ Position(b) < Position(forest.inverseStack[1])

\* The widget the resolution of custom element c itself produced, and those of
\* a list of custom elements.
OwnWidget(c) ==
    loadedWidgets[CHOOSE i \in 1..Len(loadedWidgets) :
                     loadedWidgets[i].custom = c].outcome.widget

OwnWidgets(customs) == [j \in 1..Len(customs) |-> OwnWidget(customs[j])]

\* The append calls as the forest and the widgets of the resolutions determine
\* them: one per entry of the append queue, then one per projector.
ExpectedAppends ==
    [i \in 1..Len(appendQueue) |->
        [target |-> WidgetTarget(OwnWidget(appendQueue[i])),
         widgets |-> OwnWidgets(forest.children[appendQueue[i]])]] \o
    [i \in 1..Len(projectors) |->
        [target |-> ProjectorTarget(projectors[i]),
         widgets |-> OwnWidgets(forest.children[projectors[i]])]]

\* The widgets the factories of custom elements produced.
FactoryProducts ==
    {loadedWidgets[i].outcome.widget :
        i \in {i \in 1..Len(loadedWidgets) : ~loadedWidgets[i].isAttachWidget}}

\* C36: the outcome of a successful realize is determined by the forest and by
\* the widget each resolution produced, in whatever order the resolutions
\* complete: each custom element has the widget of its own resolution, the
\* append calls are those of the append queue and of the projectors with
\* these widgets, each immediate placeholder gives way to the rendered node of
\* its own widget, and the projectors and the factory products are what the
\* handle destroys.
C36_CompletionOrderIrrelevant ==
    /\ \A i \in 1..Len(loadedWidgets) :
          loadedWidgets[i].state = "fulfilled" =>
             widgetOf[loadedWidgets[i].custom] = loadedWidgets[i].outcome.widget
    /\ pc \in {"attaching", "resolved"} =>
          /\ calls.append = ExpectedAppends
          /\ Range(managedWidgets) = FactoryProducts
          /\ \A r \in Range(projectors) :
                /\ projectorState[r].placeholders = forest.children[r]
                /\ projectorState[r].children = OwnWidgets(forest.children[r])
                /\ projectorState[r].attach = "attached" =>
                      \A p \in Range(forest.children[r]) :
                         /\ RenderedNode(OwnWidget(p)) \in Range(childNodes[MarkupParent(p)])
                         /\ p \notin Range(childNodes[MarkupParent(p)])
    /\ calls.handleDestroy >= 1 =>
          Range(calls.destroy) =
             {ProjectorTarget(r) : r \in Range(projectors)} \cup
             {WidgetTarget(w) : w \in FactoryProducts}

\* A successful realize in which the factory product of a later custom element
\* was there before that of an earlier one, whose widget it was appended to,
\* and whose handle was destroyed.
C36_Witness ==
    /\ pc = "resolved"
    /\ calls.handleDestroy >= 1
    /\ childNodes # markup
    /\ \E i, j \in 1..Len(loadedWidgets) :
          /\ i < j
          /\ ~loadedWidgets[i].isAttachWidget
          /\ ~loadedWidgets[j].isAttachWidget
          /\ managedWidgets = <<loadedWidgets[j].outcome.widget,
                                loadedWidgets[i].outcome.widget>>
          /\ \E k \in 1..Len(calls.append) :
                /\ calls.append[k].target = WidgetTarget(loadedWidgets[i].outcome.widget)
                /\ loadedWidgets[j].outcome.widget \in Range(calls.append[k].widgets)

\* The elements of the subtree realize was called on, and the widgets a call
\* has stored on its custom elements.
OwnNodes == {realizeRoot} \cup Range(getElementsByTagName(markup, realizeRoot))

WidgetsOfCall(call) == {call.widgetOf[n] : n \in Nodes} \ {NoWidget}

\* The two realize calls work on disjoint widgets.
DisjointWidgets == WidgetsOfCall(CallState) \cap WidgetsOfCall(suspended) = {}

\* What the other realize call owns: its projectors and its managed widgets.
OwnedByOther ==
    {ProjectorTarget(r) : r \in Range(suspended.projectors)} \cup
    {WidgetTarget(w) : w \in Range(suspended.managedWidgets)}

\* C33: two realize calls whose continuations interleave share no realization
\* state. What a call keeps of the document lies in its own subtree; when the
\* calls work on disjoint widgets a call is not rejected for a parent another
\* call gave, its append calls, the parents of its widgets, the nodes that
\* replaced its placeholders and the targets its handle destroys are those
\* its own forest and its own resolutions determine, as in a call that runs
\* alone, and its handle destroys nothing the other call owns.
C33_CallsIndependent ==
    /\ \A n \in Nodes :
          (\/ forest.is[n] # Null
           \/ widgetOf[n] # NoWidget
           \/ projectorState[n].attach # "none"
           \/ n \in Range(projectors)
           \/ n \in Range(appendQueue)) => n \in OwnNodes
    /\ DisjointWidgets =>
          /\ ~RejectedWith(ErrHasParent)
          /\ Range(managedWidgets) \cap Range(suspended.managedWidgets) = {}
          /\ pc \in {"attaching", "resolved"} =>
                /\ calls.append = ExpectedAppends
                /\ Range(managedWidgets) = FactoryProducts
                /\ \A k \in 1..Len(calls.append) :
                      \A w \in Range(calls.append[k].widgets) :
                         parent[w] = calls.append[k].target
                /\ \A r \in Range(projectors) :
                      projectorState[r].attach = "attached" =>
                         \A p \in Range(forest.children[r]) :
                            /\ RenderedNode(OwnWidget(p))
                                  \in Range(childNodes[MarkupParent(p)])
                            /\ p \notin Range(childNodes[MarkupParent(p)])
                /\ \A n \in OwnNodes :
                      Range(childNodes[n]) \subseteq
                         OwnNodes \cup {RenderedNode(w) : w \in WidgetsOfCall(CallState)}
          /\ calls.handleDestroy >= 1 =>
                /\ Range(calls.destroy) =
                      {ProjectorTarget(r) : r \in Range(projectors)} \cup
                      {WidgetTarget(w) : w \in FactoryProducts}
                /\ Range(calls.destroy) \cap OwnedByOther = {}

\* The handle of a realize that resolved was destroyed, with a factory product
\* among what it destroyed and a placeholder replaced, while another realize
\* call on another subtree, with a factory product of its own, is waiting for
\* its projector to attach.
C33_Witness ==
    /\ pc = "resolved"
    /\ calls.handleDestroy >= 1
    /\ managedWidgets # <<>>
    /\ childNodes # markup
    /\ suspended.pc = "attaching"
    /\ suspended.managedWidgets # <<>>
    /\ DisjointWidgets

\* A continuation of the running realize call that appends widgets.
AppendStep == realizeRoot' = realizeRoot /\ calls'.append # calls.append

\* The widgets of the append calls of a call.
AppendedBy(call) ==
    UNION {Range(call.calls.append[k].widgets) : k \in 1..Len(call.calls.append)}

\* C39: the checks, the appends to widgets and projectors and the attach
\* calls of a realize call are one continuation: the step that appends is the
\* step from loading to attaching, it makes every append and every attach call
\* of the realize call, every widget it gives a parent had none when the step
\* began, and nothing of the other realize call or of the registry changes in
\* it; so no widget is ever appended by two realize calls.
C39_AssemblyUninterrupted ==
    /\ [](AppendedBy(CallState) \cap AppendedBy(suspended) = {})
    /\ [][AppendStep =>
             /\ pc = "loading" /\ pc' = "attaching"
             /\ calls.append = <<>> /\ calls.attach = <<>>
             /\ Len(calls'.append) = Len(appendQueue) + Len(projectors)
             /\ calls'.attach = projectors
             /\ \A k \in 1..Len(calls'.append) :
                   \A w \in Range(calls'.append[k].widgets) :
                      /\ parent[w] = NoParent
                      /\ parent'[w] = calls'.append[k].target
             /\ suspended' = suspended
             /\ UNCHANGED registryVars]_vars

\* Two realize calls resolved the same widget: the one whose continuation ran
\* first appended it, the other was rejected by its parent check.
C39_Witness ==
    /\ RejectedWith(ErrHasParent)
    /\ \E w \in WidgetsOfCall(CallState) :
          /\ w \in AppendedBy(suspended)
          /\ parent[w].kind = "projector"
          /\ parent[w].id \in Range(suspended.projectors)
    /\ calls.append = <<>>

=============================================================================
